---- MODULE Spec2Model ----
(***************************************************************************)
(* A model of the obsidian-longhand plugin's text-mutation core:           *)
(*   - rewriteNoteLinks (services/heicReplace): rewrites the targets of    *)
(*     embeds and links of a note after a HEIC -> JPEG conversion;         *)
(*   - the splice step at its end (sort by descending start, then slice    *)
(*     and concatenate);                                                   *)
(*   - wikilinkEntities (services/wikilinkEntities): wraps the first       *)
(*     occurrence of every known note name in a [[...]] link.              *)
(* Texts are sequences of one-character strings; offsets are 0-based as in *)
(* the TypeScript source.                                                  *)
(***************************************************************************)
EXTENDS Integers, Sequences, FiniteSets, TLC

VARIABLES
    \* ---- rewriteNoteLinks ----
    noteText,       \* the note's content in the vault
    cache,          \* app.metadataCache.getFileCache(note): [present, embeds, links]
    replacements,   \* Map old absolute path -> new absolute path
    pc,             \* position of the running call
    original,       \* the text read by app.vault.read(note)
    ops,            \* the edits collected (and then sorted)
    updated,        \* the spliced text
    writes,         \* number of app.vault.modify calls made
    opsIn,          \* the edit batch as collected, before the sort
    before,         \* history: the note's content when the call began
    \* ---- wikilinkEntities ----
    notes,          \* app.vault.getMarkdownFiles(), each with its frontmatter aliases
    content,        \* the text handed to wikilinkEntities
    entityMap,      \* the Map of buildEntityMap, as a list of [key, canonical] in insertion order
    keys,           \* the keys longer than one character, longest first
    text,           \* the text being annotated
    lower,          \* text.toLowerCase()
    linkedCanonicals, \* the canonical names annotated so far
    linkRanges,     \* the [[...]] ranges of text, as a list of [s, e]
    ki,             \* 1-based position in keys of the key being processed
    idx,            \* the offset of the occurrence being examined
    wpc,            \* position of the running call
    annots,         \* history: the annotations inserted by the running call, in order
    calls,          \* number of calls of wikilinkEntities begun
    \* ---- collectImagesFromNote (it reads cache, as rewriteNoteLinks does) ----
    limit,          \* the limit handed in
    results,        \* the image references collected, each with the history
                    \* field  at : the offset of the construct it came from
    seen,           \* the paths collected
    ei,             \* 1-based position in cache.embeds
    li,             \* 1-based position in cache.links
    cpc,            \* position of the running call
    \* ---- processImagesInCurrentNote ----
    settings,       \* the plugin settings and the workspace the run reads
    rpc,            \* position of the run
    images,         \* the image references of the run
    modelOutput,    \* what openAiTranscription returned
    runOriginal,    \* the text read right before the transcription is written
    heading,        \* the heading line of the run
    inserted,       \* history: number of transcriptions written to the note
    reported,       \* history: the terminal reports made (progress.done / fail)
    disposed,       \* the progress service of the run is disposed
    \* ---- convertHeicVaultFileToJpeg and the loop that calls it ----
    vaultPaths,     \* the paths app.vault.adapter.exists answers true for
    ri,             \* number of images the loop over the HEIC images has passed
    heicFile,       \* the file handed to the running conversion
    outPath,        \* the path the conversion is about to test or to create
    counter,        \* the number the next candidate name takes
    vpc,            \* position of the running conversion
    created,        \* history: the files created, each with the paths that existed
                    \* when the conversion was called
    \* ---- ProgressService ----
    opts,           \* the ProgressOptions of the service
    pDisposed,      \* this.disposed
    last,           \* this.last
    log,            \* this.log
    statusText,     \* statusEl.textContent
    removed,        \* number of statusEl.remove() calls made
    toasts,         \* the toasts shown, in order
    overlayText,    \* overlayTextEl.textContent
    notices,        \* the Notices shown, in order
    pcalls          \* history: the methods called, in order

rwVars == <<noteText, cache, replacements, pc, original, ops, updated, writes, opsIn,
            before>>

wkVars == <<notes, content, entityMap, keys, text, lower, linkedCanonicals, linkRanges,
            ki, idx, wpc, annots, calls>>

ciVars == <<limit, results, seen, ei, li, cpc>>

runVars == <<settings, rpc, images, modelOutput, runOriginal, heading, inserted,
             reported, disposed>>

cvVars == <<vaultPaths, ri, heicFile, outPath, counter, vpc, created>>

pgVars == <<opts, pDisposed, last, log, statusText, removed, toasts, overlayText, notices,
            pcalls>>

vars == <<rwVars, wkVars, ciVars, runVars, cvVars, pgVars>>

\* What rewriteNoteLinks, and what wikilinkEntities, leaves alone.
offRewrite == <<wkVars, ciVars, runVars, cvVars, pgVars>>
offWiki == <<rwVars, ciVars, runVars, cvVars, pgVars>>
offCollect == <<noteText, replacements, pc, original, ops, updated, writes, opsIn, before,
                wkVars, runVars, cvVars, pgVars>>
offRun == <<wkVars, pgVars>>

\* The values the model uses for JavaScript's null / undefined: no offset, no
\* file (or an empty string, which the code's truthiness tests treat alike).
NoOffset == -1
NoPath == <<>>

(***************************************************************************)
(* JavaScript string primitives on sequences of characters.                *)
(***************************************************************************)
Min(a, b) == IF a < b THEN a ELSE b
Max(a, b) == IF a > b THEN a ELSE b

\* String.prototype.slice(a, b) for non-negative a, b (0-based, end exclusive,
\* both clamped to the length).
Slice(s, a, b) ==
    LET lo == Min(a, Len(s))
        hi == Min(b, Len(s))
    IN  IF lo >= hi THEN <<>> ELSE SubSeq(s, lo + 1, hi)

\* String.prototype.slice(a): to the end of the string.
SliceFrom(s, a) == Slice(s, a, Len(s))

\* Does sub occur in s at 0-based offset i ?
OccursAt(s, sub, i) ==
    /\ i >= 0
    /\ i + Len(sub) <= Len(s)
    /\ \A k \in 1..Len(sub) : s[i + k] = sub[k]

\* String.prototype.indexOf(sub, from): the smallest offset >= from, or -1.
IndexOfFrom(s, sub, from) ==
    LET hits == {i \in Max(from, 0)..(Len(s) - Len(sub)) : OccursAt(s, sub, i)}
    IN  IF hits = {} THEN -1
        ELSE CHOOSE i \in hits : \A j \in hits : i <= j

IndexOf(s, sub) == IndexOfFrom(s, sub, 0)

\* String.prototype.lastIndexOf(sub): the largest offset, or -1.
LastIndexOf(s, sub) ==
    LET hits == {i \in 0..(Len(s) - Len(sub)) : OccursAt(s, sub, i)}
    IN  IF hits = {} THEN -1
        ELSE CHOOSE i \in hits : \A j \in hits : i >= j

Includes(s, sub) == IndexOf(s, sub) # -1

\* The white space of String.prototype.trim() that the texts of the model hold.
WhiteSpace == {" ", "\t", "\n", "\r"}

\* String.prototype.trim(): strips the white space at both ends.
RECURSIVE TrimLeft(_)
TrimLeft(s) == IF s # <<>> /\ Head(s) \in WhiteSpace THEN TrimLeft(Tail(s)) ELSE s

RECURSIVE TrimRight(_)
TrimRight(s) ==
    IF s # <<>> /\ s[Len(s)] \in WhiteSpace THEN TrimRight(SubSeq(s, 1, Len(s) - 1)) ELSE s

Trim(s) == TrimRight(TrimLeft(s))

\* rawLink.split("|")[0]: the text before the first "|", or all of it.
SplitPipeFirst(s) ==
    LET i == IndexOf(s, <<"|">>) IN IF i = -1 THEN s ELSE Slice(s, 0, i)

(***************************************************************************)
(* The vault and the link system, as rewriteNoteLinks consumes them.       *)
(* A path is a sequence of characters: a folder character and a name.      *)
(***************************************************************************)
PathH == <<"D", "h">>            \* a HEIC file, linked as  h
PathG == <<"D", "g", "(", ")">>  \* a HEIC file whose name holds parentheses, linked as  g()
JpgH  == <<"D", "j">>            \* the JPEG created for PathH
JpgG  == <<"D", "k">>            \* the JPEG created for PathG, gone from the vault since
PathE == <<"E", "h">>            \* a file named as PathH in another folder, linked as  h

\* The files of the vault (TFile instances) after the conversions.
ImgA  == <<"D", "a", ".", "p", "n", "g">>       \* an image, linked as  a.png
ImgB  == <<"D", "b", ".", "H", "E", "I", "C">>  \* an image, linked as  b.HEIC
NoteN == <<"D", "n", ".", "m", "d">>            \* a markdown file, linked as  n.md
JpgB  == <<"D", "b", ".", "j", "p", "g">>       \* the JPEG created for ImgB, linked as  b.jpg
ImgF  == <<"D", "b", ".", "h", "e", "i", "f">>  \* an image, linked as  b.heif
ImgC  == <<"D", "c", ".", "h", "e", "i", "c">>  \* an image, linked as  c.heic

MaxRunRefs == 2   \* image constructs of the note of a run

\* file.name and file.basename of a path: the name, and the name up to its
\* last dot.
FileName(path) == Tail(path)
Basename(name) ==
    IF LastIndexOf(name, <<".">>) > 0 THEN Slice(name, 0, LastIndexOf(name, <<".">>)) ELSE name

\* `${counter}`: the decimal digits of a number.
DigitChar(d) ==
    CASE d = 0 -> "0" [] d = 1 -> "1" [] d = 2 -> "2" [] d = 3 -> "3" [] d = 4 -> "4"
      [] d = 5 -> "5" [] d = 6 -> "6" [] d = 7 -> "7" [] d = 8 -> "8" [] d = 9 -> "9"

RECURSIVE Decimal(_)
Decimal(n) == IF n < 10 THEN <<DigitChar(n)>> ELSE Decimal(n \div 10) \o <<DigitChar(n % 10)>>

\* The candidate paths of convertHeicVaultFileToJpeg, in the folder of the
\* file: `${base}.jpg` first (n = 0), then `${base} (${n}).jpg`.
OutPathOf(path, n) ==
    <<Head(path)>> \o Basename(FileName(path))
       \o (IF n = 0 THEN <<>> ELSE <<" ", "(">> \o Decimal(n) \o <<")">>)
       \o <<".", "j", "p", "g">>

\* The path of the file convertHeicVaultFileToJpeg creates when
\* <folder>/<base>.jpg is free.
JpgOf(path) == OutPathOf(path, 0)

\* The JPEG files the conversions of a run may create.
JpgFiles == { OutPathOf(f, n) : f \in {ImgB, ImgC}, n \in 0..(MaxRunRefs + 1) }

VaultFiles == {PathH, PathG, JpgH, PathE, ImgA, ImgB, NoteN, JpgB, ImgF, ImgC} \cup JpgFiles

\* app.metadataCache.getFirstLinkpathDest(linkpath, note.path): the file a link
\* text resolves to, or NoPath.
GetFirstLinkpathDest(linkpath) ==
    IF linkpath = <<"h">> THEN PathH
    ELSE IF linkpath = <<"g", "(", ")">> THEN PathG
    ELSE IF linkpath = Tail(ImgA) THEN ImgA
    ELSE IF linkpath = Tail(ImgB) THEN ImgB
    ELSE IF linkpath = Tail(NoteN) THEN NoteN
    ELSE IF linkpath = Tail(JpgB) THEN JpgB
    ELSE IF <<"D">> \o linkpath \in {ImgF, ImgC} \cup JpgFiles THEN <<"D">> \o linkpath
    ELSE NoPath

\* app.metadataCache.fileToLinktext(file, note.path): the shortest link text of
\* a file, here its name without the folder.
FileToLinktext(path) == Tail(path)

\* toLinkText of rewriteNoteLinks: the link text of a vault file, the raw path
\* when no file is at that path.
ToLinkText(absPath) ==
    IF absPath \in VaultFiles THEN FileToLinktext(absPath) ELSE absPath

\* Map.prototype.get: the value, or NoPath (undefined) for a missing key.
MapGet(map, key) == IF key \in DOMAIN map THEN map[key] ELSE NoPath

(***************************************************************************)
(* rewriteNoteLinks: the edits of the two loops.                           *)
(* A cache entry is [link, start, end]: the raw link text (<<>> when the   *)
(* entry has none) and the offsets of its position (NoOffset if missing).   *)
(***************************************************************************)
Op(start, end, newText) == [start |-> start, end |-> end, newText |-> newText]

\* const pipeSuffix = rawLink.includes("|") ? rawLink.slice(rawLink.indexOf("|")) : ""
PipeSuffix(rawLink) ==
    IF Includes(rawLink, <<"|">>) THEN SliceFrom(rawLink, IndexOf(rawLink, <<"|">>))
    ELSE <<>>

\* `${toLinkText(newAbs)}${pipeSuffix}`
NewTarget(newAbs, rawLink) == ToLinkText(newAbs) \o PipeSuffix(rawLink)

\* NewAbsOf with a default for a resolved target that the map does not hold.
NewAbsOfDefaulting(entry, repl) ==
    IF entry.link = <<>> \/ entry.start = NoOffset \/ entry.end = NoOffset THEN NoPath
    ELSE LET resolved == GetFirstLinkpathDest(Trim(SplitPipeFirst(entry.link)))
         IN  IF resolved = NoPath THEN NoPath
             ELSE IF resolved \in DOMAIN repl THEN repl[resolved] ELSE JpgH

\* The new absolute path for an entry, or NoPath when the loop body `continue`s:
\* no raw link, no offsets, unresolved target, target not in the map.
NewAbsOf(entry, repl) ==
    IF entry.link = <<>> \/ entry.start = NoOffset \/ entry.end = NoOffset THEN NoPath
    ELSE LET resolved == GetFirstLinkpathDest(Trim(SplitPipeFirst(entry.link)))
         IN  IF resolved = NoPath THEN NoPath ELSE MapGet(repl, resolved)

\* One iteration of the loop over cache.embeds: the edits it pushes.
EmbedOp(e, repl) ==
    LET newAbs == NewAbsOf(e, repl)
        start  == e.start + 3
        end    == e.end - 2
    IN  IF newAbs = NoPath THEN <<>>
        ELSE IF start < end THEN <<Op(start, end, NewTarget(newAbs, e.link))>>
        ELSE <<>>

\* LinkOp with the fallback taking the last occurrence of the raw link text.
LinkOpLastRaw(l, txt, repl) ==
    LET newAbs   == NewAbsOf(l, repl)
        slice    == Slice(txt, l.start, l.end)
        openIdx  == LastIndexOf(slice, <<"(">>)
        closeIdx == LastIndexOf(slice, <<")">>)
        rawIdx   == LastIndexOf(slice, l.link)
    IN  IF newAbs = NoPath THEN <<>>
        ELSE IF openIdx # -1 /\ closeIdx # -1 /\ closeIdx > openIdx
             THEN <<Op(l.start + openIdx + 1, l.start + closeIdx, NewTarget(newAbs, l.link))>>
        ELSE IF rawIdx # -1
             THEN <<Op(l.start + rawIdx, l.start + rawIdx + Len(l.link),
                       NewTarget(newAbs, l.link))>>
        ELSE <<>>

\* One iteration of the loop over cache.links: the edits it pushes.
LinkOp(l, txt, repl) ==
    LET newAbs   == NewAbsOf(l, repl)
        slice    == Slice(txt, l.start, l.end)
        openIdx  == LastIndexOf(slice, <<"(">>)
        closeIdx == LastIndexOf(slice, <<")">>)
        rawIdx   == IndexOf(slice, l.link)
    IN  IF newAbs = NoPath THEN <<>>
        ELSE IF openIdx # -1 /\ closeIdx # -1 /\ closeIdx > openIdx
             THEN <<Op(l.start + openIdx + 1, l.start + closeIdx, NewTarget(newAbs, l.link))>>
        ELSE IF rawIdx # -1
             THEN <<Op(l.start + rawIdx, l.start + rawIdx + Len(l.link),
                       NewTarget(newAbs, l.link))>>
        ELSE <<>>

RECURSIVE EmbedOps(_, _)
EmbedOps(embeds, repl) ==
    IF embeds = <<>> THEN <<>>
    ELSE EmbedOp(Head(embeds), repl) \o EmbedOps(Tail(embeds), repl)

RECURSIVE LinkOps(_, _, _)
LinkOps(links, txt, repl) ==
    IF links = <<>> THEN <<>>
    ELSE LinkOp(Head(links), txt, repl) \o LinkOps(Tail(links), txt, repl)

\* The ops array after both loops.
CollectOps(c, txt, repl) == EmbedOps(c.embeds, repl) \o LinkOps(c.links, txt, repl)

(***************************************************************************)
(* The splice step: ops.sort((a, b) => b.start - a.start), then one        *)
(* slice-and-concatenate per edit.  Array.prototype.sort is stable.        *)
(***************************************************************************)
\* Insert op into a list sorted by descending start, after every element
\* that does not sort after it.
RECURSIVE InsertOp(_, _)
InsertOp(sorted, op) ==
    IF sorted = <<>> THEN <<op>>
    ELSE IF Head(sorted).start >= op.start
         THEN <<Head(sorted)>> \o InsertOp(Tail(sorted), op)
         ELSE <<op>> \o sorted

RECURSIVE SortOpsFrom(_, _)
SortOpsFrom(sorted, rest) ==
    IF rest = <<>> THEN sorted
    ELSE SortOpsFrom(InsertOp(sorted, Head(rest)), Tail(rest))

\* A sort by ascending start: the edits applied from left to right.
RECURSIVE InsertOpAscending(_, _)
InsertOpAscending(sorted, op) ==
    IF sorted = <<>> THEN <<op>>
    ELSE IF Head(sorted).start <= op.start
         THEN <<Head(sorted)>> \o InsertOpAscending(Tail(sorted), op)
         ELSE <<op>> \o sorted

RECURSIVE SortOpsAscendingFrom(_, _)
SortOpsAscendingFrom(sorted, rest) ==
    IF rest = <<>> THEN sorted
    ELSE SortOpsAscendingFrom(InsertOpAscending(sorted, Head(rest)), Tail(rest))

SortOpsAscending(list) == SortOpsAscendingFrom(<<>>, list)

SortOps(list) == SortOpsFrom(<<>>, list)

\* updated.slice(0, op.start) + op.newText + updated.slice(op.end)
ApplyOp(txt, op) == Slice(txt, 0, op.start) \o op.newText \o SliceFrom(txt, op.end)

RECURSIVE ApplyOps(_, _)
ApplyOps(txt, list) ==
    IF list = <<>> THEN txt
    ELSE ApplyOps(ApplyOp(txt, Head(list)), Tail(list))

\* The text the splice step produces for a batch of edits.
Splice(txt, list) == ApplyOps(txt, SortOps(list))

(***************************************************************************)
(* Inputs of rewriteNoteLinks: notes made of two constructs with filler    *)
(* text after each, the entries the parser may report for them, and the    *)
(* replacement maps of a run in which any subset of the conversions        *)
(* succeeded.                                                              *)
(***************************************************************************)
MaxEntries == 2   \* entries in the two cache lists together

Parts ==
    { <<"!", "[", "[", "h", "]", "]">>,                  \* ![[h]]
      <<"!", "[", "[", "h", "|", "s", "]", "]">>,        \* ![[h|s]]
      <<"[", "a", "]", "(", "h", "|", "s", ")">>,        \* [a](h|s)
      <<"[", "(", "a", ")", "]", "(", "h", ")">>,        \* [(a)](h)
      <<"[", "a", "]", "(", "g", "(", ")", ")">>,        \* [a](g())
      <<"[", "a", "]", "h">> }                           \* [a]h

SecondParts ==
    { <<"!", "[", "[", "h", "|", "s", "]", "]">>,        \* ![[h|s]]
      <<"[", "a", "]", "(", "g", "(", ")", ")">> }       \* [a](g())

Filler == <<"x">>

NoteOf(p1, p2) == p1 \o Filler \o p2 \o Filler

RawLinks == { <<"h">>, <<"h", "|", "s">>, <<"g", "(", ")">>, <<"u">> }

\* The [start, end) spans the parser may report in NoteOf(p1, p2): the first
\* construct, the first construct without its last character, the second
\* construct, or both constructs as one.
SpansOf(p1, p2) ==
    LET s2 == Len(p1) + Len(Filler)
        e2 == s2 + Len(p2)
    IN  { <<0, Len(p1)>>, <<0, Len(p1) - 1>>, <<s2, e2>>, <<0, e2>> }

EntriesOf(p1, p2) ==
    { [link |-> r, start |-> sp[1], end |-> sp[2]] : r \in RawLinks, sp \in SpansOf(p1, p2) }

\* getFileCache returns null for a note the parser has not indexed.
NoCache == [present |-> FALSE, embeds |-> <<>>, links |-> <<>>]

\* All sequences over S of length at most n.
SeqsUpTo(S, n) == UNION { [1..k -> S] : k \in 0..n }

\* The caches whose two lists hold at most MaxEntries entries together.
CachesOf(p1, p2) ==
    UNION { [present : {TRUE},
             embeds  : [1..ne -> EntriesOf(p1, p2)],
             links   : SeqsUpTo(EntriesOf(p1, p2), MaxEntries - ne)] : ne \in 0..MaxEntries }

\* The maps of a run that converted nothing, PathH only, or both files, and a
\* map whose new file has the link text of the old one.
ReplacementMaps ==
    { [p \in K |-> IF p = PathH THEN JpgH ELSE JpgG] : K \in {{}, {PathH}, {PathH, PathG}} }
    \cup { [p \in {PathH} |-> PathE] }

(***************************************************************************)
(* rewriteNoteLinks as a state machine.                                    *)
(***************************************************************************)
\* No run of processImagesInCurrentNote is under way.
\* No conversion is running and none has been made.
ConvertIdle ==
    /\ vaultPaths = {}
    /\ ri = 0
    /\ heicFile = NoPath
    /\ outPath = NoPath
    /\ counter = 0
    /\ vpc = "idle"
    /\ created = <<>>

\* No ProgressService has been constructed.
ProgressIdle ==
    /\ opts = <<>>
    /\ pDisposed = FALSE
    /\ last = <<>>
    /\ log = <<>>
    /\ statusText = <<>>
    /\ removed = 0
    /\ toasts = <<>>
    /\ overlayText = <<>>
    /\ notices = <<>>
    /\ pcalls = <<>>

RunIdle ==
    /\ settings = <<>>
    /\ rpc = "idle"
    /\ images = <<>>
    /\ modelOutput = <<>>
    /\ runOriginal = <<>>
    /\ heading = <<>>
    /\ inserted = 0
    /\ reported = <<>>
    /\ disposed = FALSE

\* No call of collectImagesFromNote is running.
CollectIdle ==
    /\ limit = 0
    /\ results = <<>>
    /\ seen = {}
    /\ ei = 0
    /\ li = 0
    /\ cpc = "idle"

\* No call of wikilinkEntities is running.
WikiIdle ==
    /\ notes = <<>>
    /\ content = <<>>
    /\ entityMap = <<>>
    /\ keys = <<>>
    /\ text = <<>>
    /\ lower = <<>>
    /\ linkedCanonicals = {}
    /\ linkRanges = <<>>
    /\ ki = 0
    /\ idx = NoOffset
    /\ wpc = "idle"
    /\ annots = <<>>
    /\ calls = 0

InitRewrite ==
    /\ \E p1 \in Parts, p2 \in SecondParts :
          /\ noteText = NoteOf(p1, p2)
          /\ cache \in {NoCache} \cup CachesOf(p1, p2)
    /\ replacements \in ReplacementMaps
    /\ pc = "start"
    /\ original = <<>>
    /\ ops = <<>>
    /\ opsIn = <<>>
    /\ updated = <<>>
    /\ writes = 0
    /\ before = noteText
    /\ WikiIdle
    /\ CollectIdle
    /\ RunIdle
    /\ ConvertIdle
    /\ ProgressIdle

\* if (!replacements.size) return;  const cache = ...; if (!cache) return;
RewriteBegin ==
    /\ pc = "start"
    /\ pc' = IF DOMAIN replacements = {} \/ ~cache.present THEN "done" ELSE "read"
    /\ UNCHANGED <<noteText, cache, replacements, original, ops, opsIn, updated, writes, before>>
    /\ UNCHANGED offRewrite

\* const original = await app.vault.read(note);
RewriteRead ==
    /\ pc = "read"
    /\ original' = noteText
    /\ pc' = "collect"
    /\ UNCHANGED <<noteText, cache, replacements, ops, opsIn, updated, writes, before>>
    /\ UNCHANGED offRewrite

\* The two loops; if (!ops.length) return;
RewriteCollect ==
    /\ pc = "collect"
    /\ opsIn' = CollectOps(cache, original, replacements)
    /\ ops' = opsIn'
    /\ pc' = IF opsIn' = <<>> THEN "done" ELSE "splice"
    /\ UNCHANGED <<noteText, cache, replacements, original, updated, writes, before>>
    /\ UNCHANGED offRewrite

\* RewriteSplice without the test that the spliced text differs.
RewriteSpliceAlwaysWrite ==
    /\ pc = "splice"
    /\ ops' = SortOps(ops)
    /\ updated' = ApplyOps(original, ops')
    /\ pc' = "write"
    /\ UNCHANGED <<noteText, cache, replacements, original, opsIn, writes, before>>
    /\ UNCHANGED offRewrite

\* ops.sort(...); let updated = original; for (const op of ops) ...;
\* if (updated !== original) ...
RewriteSplice ==
    /\ pc = "splice"
    /\ ops' = SortOps(ops)
    /\ updated' = ApplyOps(original, ops')
    /\ pc' = IF updated' # original THEN "write" ELSE "done"
    /\ UNCHANGED <<noteText, cache, replacements, original, opsIn, writes, before>>
    /\ UNCHANGED offRewrite

\* await app.vault.modify(note, updated);
RewriteWrite ==
    /\ pc = "write"
    /\ noteText' = updated
    /\ writes' = writes + 1
    /\ pc' = "done"
    /\ UNCHANGED <<cache, replacements, original, ops, opsIn, updated, before>>
    /\ UNCHANGED offRewrite

NextRewrite ==
    \/ RewriteBegin
    \/ RewriteRead
    \/ RewriteCollect
    \/ RewriteSplice
    \/ RewriteWrite

Spec == InitRewrite /\ [][NextRewrite]_vars

(***************************************************************************)
(* Vocabulary of the claims about rewriteNoteLinks.                        *)
(***************************************************************************)
\* The occurrences of the call: the embed entries, then the link entries.
Entries == cache.embeds \o cache.links

\* Two [start, end) ranges share a position.
RangesOverlap(a, b) == a.start < b.end /\ b.start < a.end

SpansDisjoint ==
    \A i \in 1..Len(Entries), j \in 1..Len(Entries) :
        i < j => ~RangesOverlap(Entries[i], Entries[j])

\* The identity an occurrence resolves to (NoPath: unresolved), and whether
\* it is a key of the replacement map.
TargetOf(e) == GetFirstLinkpathDest(Trim(SplitPipeFirst(e.link)))
InMap(e) == TargetOf(e) # NoPath /\ TargetOf(e) \in DOMAIN replacements

\* By how much the text at offset p of the text read has moved in the spliced
\* text: the growth of every edit that ends at or before p.
RECURSIVE ShiftAt(_, _)
ShiftAt(list, p) ==
    IF list = <<>> THEN 0
    ELSE (IF Head(list).end <= p
          THEN Len(Head(list).newText) - (Head(list).end - Head(list).start)
          ELSE 0) + ShiftAt(Tail(list), p)

\* The text of an occurrence's span before the call, and what stands in its
\* place after the call.
SpanText(e) == Slice(before, e.start, e.end)
SpanTextAfter(e) ==
    Slice(noteText, e.start + ShiftAt(opsIn, e.start), e.end + ShiftAt(opsIn, e.end))

\* C1: when the occurrence spans are pairwise non-overlapping, a finished call
\* has left unchanged the span text of every occurrence that is unresolved or
\* resolves to an identity that is not a key of the map, and every character
\* outside the spans of the other occurrences (each found at its offset moved by
\* the growth of the edits before it).
C1_UnmappedAndOutsideUntouched ==
    (pc = "done" /\ SpansDisjoint) =>
        /\ Len(noteText) = Len(before) + ShiftAt(opsIn, Len(before))
        /\ \A p \in 0..(Len(before) - 1) :
              (\A i \in 1..Len(Entries) :
                  ~(InMap(Entries[i]) /\ Entries[i].start <= p /\ p < Entries[i].end))
              => noteText[p + ShiftAt(opsIn, p) + 1] = before[p + 1]
        /\ \A i \in 1..Len(Entries) :
              ~InMap(Entries[i]) => SpanTextAfter(Entries[i]) = SpanText(Entries[i])

\* C1 witness: a call has rewritten one occurrence and finished, while another
\* occurrence resolves to PathG, whose conversion failed (it is not in the map).
C1_Witness ==
    /\ pc = "done"
    /\ SpansDisjoint
    /\ writes = 1
    /\ noteText # before
    /\ DOMAIN replacements = {PathH}
    /\ replacements[PathH] = JpgH
    /\ \E i \in 1..Len(Entries) : TargetOf(Entries[i]) = PathG
    /\ \E i \in 1..Len(Entries) : InMap(Entries[i])

\* The text between the markers of an embed construct  ![[ ... ]]  and of an
\* inline construct  [alt]( ... ) : the target and, after a "|", the suffix.
IsEmbedConstruct(t) ==
    /\ Len(t) > 5
    /\ Slice(t, 0, 3) = <<"!", "[", "[">>
    /\ SliceFrom(t, Len(t) - 2) = <<"]", "]">>
EmbedInner(t) == Slice(t, 3, Len(t) - 2)

IsInlineConstruct(t) ==
    /\ Includes(t, <<"]", "(">>)
    /\ t[Len(t)] = ")"
    /\ t[1] = "[" \/ Slice(t, 0, 2) = <<"!", "[">>
InlineOpen(t) == IndexOf(t, <<"]", "(">>) + 2
InlineInner(t) == Slice(t, InlineOpen(t), Len(t) - 1)

\* C2: a rewritten embed or inline occurrence whose construct carries a "|"
\* suffix after its target carries that same suffix after the new target,
\* whether the parser supplied the raw link text with the suffix or without.
C2_SuffixPreserved ==
    (pc = "done" /\ SpansDisjoint) =>
        /\ \A i \in 1..Len(cache.embeds) :
              LET e == cache.embeds[i]
                  t == SpanText(e)
              IN  (/\ InMap(e)
                   /\ IsEmbedConstruct(t)
                   /\ Includes(EmbedInner(t), <<"|">>)
                   /\ e.link \in {EmbedInner(t), SplitPipeFirst(EmbedInner(t))})
                  => SpanTextAfter(e) =
                        <<"!", "[", "[">> \o ToLinkText(replacements[TargetOf(e)])
                            \o PipeSuffix(EmbedInner(t)) \o <<"]", "]">>
        /\ \A i \in 1..Len(cache.links) :
              LET l == cache.links[i]
                  t == SpanText(l)
              IN  (/\ InMap(l)
                   /\ IsInlineConstruct(t)
                   /\ Includes(InlineInner(t), <<"|">>)
                   /\ l.link \in {InlineInner(t), SplitPipeFirst(InlineInner(t))})
                  => SpanTextAfter(l) =
                        Slice(t, 0, InlineOpen(t)) \o ToLinkText(replacements[TargetOf(l)])
                            \o PipeSuffix(InlineInner(t)) \o <<")">>

\* C3: for an inline occurrence  [alt](target)  whose target (the raw link
\* text) is in the map, the call replaces exactly the target: the alt text, the
\* brackets and the enclosing parentheses stay, also when the alt text or the
\* target holds parentheses.
C3_InlineTargetOnly ==
    (pc = "done" /\ SpansDisjoint) =>
        \A i \in 1..Len(cache.links) :
            LET l == cache.links[i]
                t == SpanText(l)
            IN  (/\ InMap(l)
                 /\ IsInlineConstruct(t)
                 /\ ~Includes(l.link, <<"|">>)
                 /\ InlineInner(t) = l.link)
                => SpanTextAfter(l) =
                      Slice(t, 0, InlineOpen(t)) \o ToLinkText(replacements[TargetOf(l)])
                          \o <<")">>

\* The least start and the greatest end of a batch of edits.
RECURSIVE MinStart(_)
MinStart(list) ==
    IF Len(list) = 1 THEN Head(list).start
    ELSE Min(Head(list).start, MinStart(Tail(list)))

RECURSIVE MaxEnd(_)
MaxEnd(list) ==
    IF Len(list) = 1 THEN Head(list).end
    ELSE Max(Head(list).end, MaxEnd(Tail(list)))

SomeOverlap(list) ==
    \E i \in 1..Len(list), j \in 1..Len(list) : i < j /\ RangesOverlap(list[i], list[j])

\* The base with each edit's span replaced by its text, every offset read
\* against the unedited base: the edits taken from left to right (by start,
\* then by end, then by place in the list), the base copied between them.
\* pos is the offset of the base up to which the output is built.
Leftmost(list) ==
    CHOOSE i \in 1..Len(list) :
        \A j \in 1..Len(list) :
            \/ list[i].start < list[j].start
            \/ list[i].start = list[j].start /\ list[i].end < list[j].end
            \/ list[i].start = list[j].start /\ list[i].end = list[j].end /\ i <= j

Without(list, i) == SubSeq(list, 1, i - 1) \o SubSeq(list, i + 1, Len(list))

RECURSIVE SimultaneousFrom(_, _, _)
SimultaneousFrom(base, list, pos) ==
    IF list = <<>> THEN SliceFrom(base, pos)
    ELSE LET i == Leftmost(list)
         IN  Slice(base, pos, list[i].start) \o list[i].newText
                \o SimultaneousFrom(base, Without(list, i), list[i].end)

Simultaneous(base, list) == SimultaneousFrom(base, list, 0)

\* The sub-lists of a list: its elements at the indices of I, in list order.
RECURSIVE SubList(_, _)
SubList(list, I) ==
    IF list = <<>> THEN <<>>
    ELSE (IF Len(list) \in I THEN SubList(SubSeq(list, 1, Len(list) - 1), I) \o <<list[Len(list)]>>
          ELSE SubList(SubSeq(list, 1, Len(list) - 1), I))

\* C5: when two of the collected edits overlap, the finished call has skipped
\* the edits it could not place: the note holds the text read with some
\* pairwise non-overlapping part of the edits applied (never both of two
\* overlapping edits), so that the text outside the edit ranges is unchanged.
C5_OverlappingEditsSkipped ==
    (pc = "done" /\ SomeOverlap(opsIn)) =>
        \E I \in SUBSET (1..Len(opsIn)) :
            /\ ~SomeOverlap(SubList(opsIn, I))
            /\ noteText = Simultaneous(before, SubList(opsIn, I))

\* No "(" of t is followed later by a ")".
NoParenPair(t) ==
    \A i \in 1..Len(t), j \in 1..Len(t) : ~(i < j /\ t[i] = "(" /\ t[j] = ")")

\* C6: for an inline occurrence with a mapped target whose span text holds no
\* "(" followed later by a ")": when the raw link text occurs in the span, its
\* first occurrence there, and nothing else of the span, is replaced by the new
\* target; when it does not occur, the span is unchanged; in both cases the
\* text outside the span is unchanged.
C6_FallbackRawSubstring ==
    (pc = "done" /\ SpansDisjoint) =>
        \A i \in 1..Len(cache.links) :
            LET l == cache.links[i]
                t == SpanText(l)
                at == IndexOf(t, l.link)
            IN  (InMap(l) /\ NoParenPair(t)) =>
                  /\ at # -1 =>
                        SpanTextAfter(l) =
                            Slice(t, 0, at)
                              \o ToLinkText(replacements[TargetOf(l)]) \o PipeSuffix(l.link)
                              \o SliceFrom(t, at + Len(l.link))
                  /\ at = -1 => SpanTextAfter(l) = t
                  /\ Len(cache.links) = 1 /\ cache.embeds = <<>> =>
                        /\ Slice(noteText, 0, l.start) = Slice(before, 0, l.start)
                        /\ SliceFrom(noteText, Len(noteText) - (Len(before) - l.end))
                              = SliceFrom(before, l.end)

\* C6 witness: a finished call with two inline occurrences in spans without a
\* parenthesis pair, both mapped: the raw link text of one occurs in its span
\* and was replaced, that of the other does not occur in its span.
C6_Witness ==
    /\ pc = "done"
    /\ SpansDisjoint
    /\ writes = 1
    /\ \E i \in 1..Len(cache.links) :
          LET l == cache.links[i]
          IN  /\ InMap(l) /\ NoParenPair(SpanText(l))
              /\ IndexOf(SpanText(l), l.link) # -1
              /\ SpanTextAfter(l) # SpanText(l)
    /\ \E i \in 1..Len(cache.links) :
          LET l == cache.links[i]
          IN  /\ InMap(l) /\ NoParenPair(SpanText(l))
              /\ IndexOf(SpanText(l), l.link) = -1

\* C7: a call writes the note at most once, and only a spliced text that
\* differs from the text it read; with an empty map, without a parser cache, or
\* when no occurrence resolves to a key of the map, a finished call has written
\* nothing and the note is as it was.
C7_WriteOnlyOnChange ==
    /\ writes <= 1
    /\ pc = "write" => updated # original
    /\ writes = 1 => (updated # original /\ noteText = updated)
    /\ writes = 0 => noteText = before
    /\ (/\ pc = "done"
        /\ \/ DOMAIN replacements = {}
           \/ ~cache.present
           \/ \A i \in 1..Len(Entries) : ~InMap(Entries[i]))
       => writes = 0

\* C7 witness: a finished call that collected an edit and yet wrote nothing,
\* because the spliced text equals the text read.
C7_Witness ==
    /\ pc = "done"
    /\ opsIn # <<>>
    /\ updated = original
    /\ writes = 0

(***************************************************************************)
(* The splice step on its own: rewriteNoteLinks from the sort on, for any  *)
(* non-empty batch of pairwise non-overlapping edits of a base text.       *)
(***************************************************************************)
MaxOps == 3   \* edits in a batch

SpliceBase == <<"a", "b", "c">>

\* Every edit of the base: a range within it and a replacement text.
EditsOf(base) ==
    { o \in [start : 0..Len(base), end : 0..Len(base), newText : {<<>>, <<"X">>, <<"Y", "Z">>}] :
          o.start <= o.end }

InitSplice ==
    /\ original = SpliceBase
    /\ opsIn \in { b \in SeqsUpTo(EditsOf(SpliceBase), MaxOps) : b # <<>> /\ ~SomeOverlap(b) }
    /\ ops = opsIn
    /\ pc = "splice"
    /\ noteText = original
    /\ before = original
    /\ cache = [present |-> TRUE, embeds |-> <<>>, links |-> <<>>]
    /\ replacements \in { [p \in {PathH} |-> JpgH] }
    /\ updated = <<>>
    /\ writes = 0
    /\ WikiIdle
    /\ CollectIdle
    /\ RunIdle
    /\ ConvertIdle
    /\ ProgressIdle

NextSplice ==
    \/ RewriteSplice
    \/ RewriteWrite

SpecSplice == InitSplice /\ [][NextSplice]_vars

\* All orders of a list.
PermutationsOf(list) ==
    { [i \in 1..Len(list) |-> list[f[i]]] : f \in Permutations(1..Len(list)) }

DistinctStarts(list) ==
    \A i \in 1..Len(list), j \in 1..Len(list) : i # j => list[i].start # list[j].start

\* C4 as claimed: for every batch of pairwise non-overlapping edits, the splice
\* step yields, for every permutation of the batch, the base with each span
\* replaced by its replacement text.
C4_SplicePermutationInvariant ==
    (pc # "splice" /\ ~SomeOverlap(opsIn)) =>
        /\ updated = Simultaneous(original, opsIn)
        /\ \A perm \in PermutationsOf(opsIn) : Splice(original, perm) = updated

\* C4 amended: the same for every batch of pairwise non-overlapping edits with
\* pairwise distinct start offsets.
C4_SpliceDistinctStarts ==
    (pc # "splice" /\ ~SomeOverlap(opsIn) /\ DistinctStarts(opsIn)) =>
        /\ updated = Simultaneous(original, opsIn)
        /\ \A perm \in PermutationsOf(opsIn) : Splice(original, perm) = updated

\* C4 witness: a batch of three edits with distinct starts, not given in the
\* order of the sort, one of them an insertion, has been spliced and written.
C4_Witness ==
    /\ pc = "done"
    /\ writes = 1
    /\ Len(opsIn) = 3
    /\ ~SomeOverlap(opsIn)
    /\ DistinctStarts(opsIn)
    /\ opsIn # ops
    /\ \E i \in 1..3 : opsIn[i].start = opsIn[i].end
    /\ Len(updated) # Len(original)


(***************************************************************************)
(* wikilinkEntities (services/wikilinkEntities).                            *)
(***************************************************************************)
\* U+0130, LATIN CAPITAL LETTER I WITH DOT ABOVE, and U+0307, COMBINING DOT
\* ABOVE, written in ASCII.  toLowerCase() turns the first into "i" followed
\* by the second: the one character whose lower case is two UTF-16 units long.
CapitalIDot == "I^"
CombiningDot == "^"

LowerLetters == {"a", "b", "c", "d", "e", "f", "g", "h", "i", "j", "k", "l", "m",
                 "n", "o", "p", "q", "r", "s", "t", "u", "v", "w", "x", "y", "z"}
UpperLetters == {"A", "B", "C", "D", "E", "F", "G", "H", "I", "J", "K", "L", "M",
                 "N", "O", "P", "Q", "R", "S", "T", "U", "V", "W", "X", "Y", "Z"}
Digits == {"0", "1", "2", "3", "4", "5", "6", "7", "8", "9"}

UpperToLower ==
    [c \in UpperLetters |->
        CASE c = "A" -> "a" [] c = "B" -> "b" [] c = "C" -> "c" [] c = "D" -> "d"
          [] c = "E" -> "e" [] c = "F" -> "f" [] c = "G" -> "g" [] c = "H" -> "h"
          [] c = "I" -> "i" [] c = "J" -> "j" [] c = "K" -> "k" [] c = "L" -> "l"
          [] c = "M" -> "m" [] c = "N" -> "n" [] c = "O" -> "o" [] c = "P" -> "p"
          [] c = "Q" -> "q" [] c = "R" -> "r" [] c = "S" -> "s" [] c = "T" -> "t"
          [] c = "U" -> "u" [] c = "V" -> "v" [] c = "W" -> "w" [] c = "X" -> "x"
          [] c = "Y" -> "y" [] c = "Z" -> "z"]

\* String.prototype.toLowerCase() of one character.
ToLowerChar(c) ==
    IF c \in UpperLetters THEN <<UpperToLower[c]>>
    ELSE IF c = CapitalIDot THEN <<"i", CombiningDot>>
    ELSE <<c>>

\* String.prototype.toLowerCase().
RECURSIVE ToLowerCase(_)
ToLowerCase(s) ==
    IF s = <<>> THEN <<>> ELSE ToLowerChar(Head(s)) \o ToLowerCase(Tail(s))

\* /[a-z0-9]/i.test(c) for c the empty string or one character.
IsWordChar(c) == c # <<>> /\ c[1] \in LowerLetters \cup UpperLetters \cup Digits

\* s[i] of JavaScript, as a string of length one ("" where the code puts "").
CharAt(s, i) == IF i >= 0 /\ i < Len(s) THEN <<s[i + 1]>> ELSE <<>>

\* Where the match of /\[\[[^\]]+\]\]/ that starts at offset i ends, or NoOffset.
\* The greedy [^\]]+ stops at the first "]" and needs one character at least.
MatchEndAt(t, i) ==
    IF ~OccursAt(t, <<"[", "[">>, i) THEN NoOffset
    ELSE LET close == IndexOfFrom(t, <<"]">>, i + 2)
         IN  IF close # -1 /\ close > i + 2 /\ OccursAt(t, <<"]", "]">>, close)
             THEN close + 2
             ELSE NoOffset

\* computeWikilinkRanges: the regex run with the g flag, from offset i on.
RECURSIVE WikilinkRangesFrom(_, _)
WikilinkRangesFrom(t, i) ==
    IF i >= Len(t) THEN <<>>
    ELSE IF MatchEndAt(t, i) # NoOffset
         THEN <<<<i, MatchEndAt(t, i)>>>> \o WikilinkRangesFrom(t, MatchEndAt(t, i))
         ELSE WikilinkRangesFrom(t, i + 1)

ComputeWikilinkRanges(t) == WikilinkRangesFrom(t, 0)

\* inExistingLink
InExistingLink(index, ranges) ==
    \E r \in 1..Len(ranges) : index >= ranges[r][1] /\ index < ranges[r][2]

\* A markdown file is [path, basename, aliases]: aliases is the list the code
\* makes of frontmatter.aliases (a string becomes a list of one, the entries
\* of an array that are not strings are dropped, no frontmatter gives <<>>).
File(path, basename, aliases) == [path |-> path, basename |-> basename, aliases |-> aliases]

\* Map.prototype.has / get on the list of [key, canonical].
EntityHas(map, key) == \E i \in 1..Len(map) : map[i].key = key
EntityGet(map, key) == map[CHOOSE i \in 1..Len(map) : map[i].key = key].canonical

\* SetIfAbsent without the test: the last writer wins.
SetOverwriting(map, key, canonical) ==
    IF EntityHas(map, key)
    THEN [i \in 1..Len(map) |->
             IF map[i].key = key THEN [key |-> key, canonical |-> canonical] ELSE map[i]]
    ELSE Append(map, [key |-> key, canonical |-> canonical])

\* if (!map.has(k)) map.set(k, canonical);
SetIfAbsent(map, key, canonical) ==
    IF EntityHas(map, key) THEN map
    ELSE Append(map, [key |-> key, canonical |-> canonical])

\* The loop over the aliases of one file.
RECURSIVE AddAliases(_, _, _)
AddAliases(map, aliases, canonical) ==
    IF aliases = <<>> THEN map
    ELSE LET trimmed == Trim(Head(aliases))
         IN  AddAliases(IF trimmed = <<>> THEN map
                        ELSE SetIfAbsent(map, ToLowerCase(trimmed), canonical),
                        Tail(aliases), canonical)

\* buildEntityMap: the loop over the files, from the map built so far.
RECURSIVE BuildEntityMapFrom(_, _, _)
BuildEntityMapFrom(map, files, currentPath) ==
    IF files = <<>> THEN map
    ELSE LET f == Head(files)
         IN  IF f.path = currentPath
             THEN BuildEntityMapFrom(map, Tail(files), currentPath)
             ELSE BuildEntityMapFrom(
                      AddAliases(SetIfAbsent(map, ToLowerCase(f.basename), f.basename),
                                 f.aliases, f.basename),
                      Tail(files), currentPath)

\* buildEntityMap registering the aliases of a file but not its name.
RECURSIVE BuildEntityMapAliasesOnlyFrom(_, _, _)
BuildEntityMapAliasesOnlyFrom(map, files, currentPath) ==
    IF files = <<>> THEN map
    ELSE LET f == Head(files)
         IN  IF f.path = currentPath
             THEN BuildEntityMapAliasesOnlyFrom(map, Tail(files), currentPath)
             ELSE BuildEntityMapAliasesOnlyFrom(AddAliases(map, f.aliases, f.basename),
                                                Tail(files), currentPath)

BuildEntityMapAliasesOnly(files, currentPath) ==
    BuildEntityMapAliasesOnlyFrom(<<>>, files, currentPath)

BuildEntityMap(files, currentPath) == BuildEntityMapFrom(<<>>, files, currentPath)

\* Array.from(entityMap.keys()).filter((k) => k.length > 1)
RECURSIVE KeysLongerThanOne(_)
KeysLongerThanOne(map) ==
    IF map = <<>> THEN <<>>
    ELSE (IF Len(Head(map).key) > 1 THEN <<Head(map).key>> ELSE <<>>)
         \o KeysLongerThanOne(Tail(map))

\* Where the stable sort by (a, b) => b.length - a.length puts one more key:
\* after every key at least as long.
RECURSIVE InsertKey(_, _)
InsertKey(sorted, key) ==
    IF sorted = <<>> THEN <<key>>
    ELSE IF Len(Head(sorted)) >= Len(key)
         THEN <<Head(sorted)>> \o InsertKey(Tail(sorted), key)
         ELSE <<key>> \o sorted

RECURSIVE SortKeysFrom(_, _)
SortKeysFrom(sorted, rest) ==
    IF rest = <<>> THEN sorted
    ELSE SortKeysFrom(InsertKey(sorted, Head(rest)), Tail(rest))

SortedKeys(map) == SortKeysFrom(<<>>, KeysLongerThanOne(map))

\* The boundary tests and the link test of the scan at offset i of low, for
\* a key of length n.
IsWordBefore(low, i) == IsWordChar(IF i = 0 THEN <<>> ELSE CharAt(low, i - 1))
IsWordAfter(low, i, n) == IsWordChar(IF i + n >= Len(low) THEN <<>> ELSE CharAt(low, i + n))

Accepts(low, ranges, i, n) ==
    ~IsWordBefore(low, i) /\ ~IsWordAfter(low, i, n) /\ ~InExistingLink(i, ranges)

\* Replacement with the canonical name alone, whatever was matched.
ReplacementCanonical(canonical, matched) == <<"[", "[">> \o canonical \o <<"]", "]">>

\* original === canonical ? `[[${canonical}]]` : `[[${canonical}|${original}]]`
Replacement(canonical, matched) ==
    IF matched = canonical
    THEN <<"[", "[">> \o canonical \o <<"]", "]">>
    ELSE <<"[", "[">> \o canonical \o <<"|">> \o matched \o <<"]", "]">>

(***************************************************************************)
(* The inputs of wikilinkEntities: a vault of the current file and up to   *)
(* MaxFiles others ("Ab" and "Ab Cd", each with or without the alias       *)
(* "Cd"), and a transcription of up to MaxWords pieces.                    *)
(***************************************************************************)
MaxFiles == 2   \* files of the vault besides the current one
MaxWords == 4   \* pieces of the transcription

NameAb == <<"A", "b">>
NameAbCd == <<"A", "b", " ", "C", "d">>
AliasCd == <<"C", "d">>

CurrentFile == File(<<"Z", "z">>, <<"Z", "z">>, <<>>)

OtherFiles ==
    { File(n, n, al) : n \in {NameAb, NameAbCd}, al \in {<<>>, <<AliasCd>>} }

Vaults ==
    { <<CurrentFile>> \o fs : fs \in
        { l \in SeqsUpTo(OtherFiles, MaxFiles) :
            \A i \in 1..Len(l), j \in 1..Len(l) : i # j => l[i].path # l[j].path } }

\* The pieces: the two names, a name in lower case, a space, a letter, a link
\* already in the text, and a capital I with dot above.
Words ==
    { NameAb, NameAbCd, <<"a", "b">>, <<" ">>, <<"x">>,
      <<"[", "[", "A", "b", "]", "]">>, <<CapitalIDot>> }

RECURSIVE Concat(_)
Concat(ws) == IF ws = <<>> THEN <<>> ELSE Head(ws) \o Concat(Tail(ws))

Transcriptions == { Concat(ws) : ws \in SeqsUpTo(Words, MaxWords) }

(***************************************************************************)
(* wikilinkEntities as a state machine.                                    *)
(***************************************************************************)
\* No call of rewriteNoteLinks is running.
RewriteIdle ==
    /\ noteText = <<>>
    /\ cache = NoCache
    /\ replacements = <<>>
    /\ pc = "idle"
    /\ original = <<>>
    /\ ops = <<>>
    /\ opsIn = <<>>
    /\ updated = <<>>
    /\ writes = 0
    /\ before = <<>>

InitWiki ==
    /\ notes \in Vaults
    /\ content \in Transcriptions
    /\ entityMap = <<>>
    /\ keys = <<>>
    /\ text = <<>>
    /\ lower = <<>>
    /\ linkedCanonicals = {}
    /\ linkRanges = <<>>
    /\ ki = 0
    /\ idx = NoOffset
    /\ wpc = "start"
    /\ annots = <<>>
    /\ calls = 1
    /\ RewriteIdle
    /\ CollectIdle
    /\ RunIdle
    /\ ConvertIdle
    /\ ProgressIdle

\* From the call to the for loop: the map, the early return, the keys, the
\* text, its lower case and its link ranges.
WikiBegin ==
    /\ wpc = "start"
    /\ entityMap' = BuildEntityMap(notes, CurrentFile.path)
    /\ text' = content
    /\ IF Len(entityMap') = 0
       THEN /\ wpc' = "done"
            /\ UNCHANGED <<keys, lower, linkRanges, ki>>
       ELSE /\ keys' = SortedKeys(entityMap')
            /\ lower' = ToLowerCase(text')
            /\ linkRanges' = ComputeWikilinkRanges(text')
            /\ ki' = 1
            /\ wpc' = "key"
    /\ UNCHANGED <<notes, content, linkedCanonicals, idx, annots>>
    /\ UNCHANGED <<calls, offWiki>>

\* WikiKey without the test of linkedCanonicals.
WikiKeyNoSkip ==
    /\ wpc = "key"
    /\ IF ki > Len(keys)
       THEN /\ wpc' = "done"
            /\ UNCHANGED <<ki, idx>>
       ELSE /\ idx' = IndexOf(lower, keys[ki])
            /\ wpc' = "scan"
            /\ UNCHANGED ki
    /\ UNCHANGED <<notes, content, entityMap, keys, text, lower, linkedCanonicals,
                   linkRanges, annots>>
    /\ UNCHANGED <<calls, offWiki>>

\* The head of the for loop: the next key, skipped when its canonical name is
\* linked already, searched from the start of lower otherwise; the return
\* after the last key.
WikiKey ==
    /\ wpc = "key"
    /\ IF ki > Len(keys)
       THEN /\ wpc' = "done"
            /\ UNCHANGED <<ki, idx>>
       ELSE IF EntityGet(entityMap, keys[ki]) \in linkedCanonicals
       THEN /\ ki' = ki + 1
            /\ UNCHANGED <<wpc, idx>>
       ELSE /\ idx' = IndexOf(lower, keys[ki])
            /\ wpc' = "scan"
            /\ UNCHANGED ki
    /\ UNCHANGED <<notes, content, entityMap, keys, text, lower, linkedCanonicals,
                   linkRanges, annots>>
    /\ UNCHANGED <<calls, offWiki>>

\* One turn of the while loop: its exit, the annotation and the break, or the
\* next occurrence.
WikiScan ==
    /\ wpc = "scan"
    /\ LET key       == keys[ki]
           canonical == EntityGet(entityMap, key)
           matched   == Slice(text, idx, idx + Len(key))
       IN  IF idx = -1
           THEN /\ ki' = ki + 1
                /\ wpc' = "key"
                /\ UNCHANGED <<text, lower, linkedCanonicals, linkRanges, idx, annots>>
           ELSE IF Accepts(lower, linkRanges, idx, Len(key))
           THEN /\ text' = Slice(text, 0, idx) \o Replacement(canonical, matched)
                              \o SliceFrom(text, idx + Len(key))
                /\ lower' = ToLowerCase(text')
                /\ linkedCanonicals' = linkedCanonicals \cup {canonical}
                /\ linkRanges' = ComputeWikilinkRanges(text')
                /\ annots' = Append(annots, [key |-> key, canonical |-> canonical,
                                             at |-> idx, matched |-> matched,
                                             text |-> text, after |-> text'])
                /\ ki' = ki + 1
                /\ wpc' = "key"
                /\ UNCHANGED idx
           ELSE /\ idx' = IndexOfFrom(lower, key, idx + Len(key))
                /\ UNCHANGED <<text, lower, linkedCanonicals, linkRanges, ki, wpc, annots>>
    /\ UNCHANGED <<notes, content, entityMap, keys>>
    /\ UNCHANGED <<calls, offWiki>>

NextWiki ==
    \/ WikiBegin
    \/ WikiKey
    \/ WikiScan

SpecWiki == InitWiki /\ [][NextWiki]_vars

(***************************************************************************)
(* Vocabulary of the claims about wikilinkEntities.                        *)
(***************************************************************************)
\* The characters annotation a wraps, as offsets of the text it was put in.
Wrapped(a) == a.at .. (a.at + Len(a.key) - 1)

\* Offset p of t lies inside a [[...]] span of t.
InsideLink(t, p) == InExistingLink(p, ComputeWikilinkRanges(t))

\* Key k occurs in t at offset i, whatever the case of the letters.
OccursIgnoringCase(t, k, i) == OccursAt(ToLowerCase(t), k, i)

\* Such an occurrence is valid: no letter or digit right before or after it,
\* and none of its characters inside a link.
ValidOccurrence(t, k, i) ==
    /\ OccursIgnoringCase(t, k, i)
    /\ ~IsWordChar(CharAt(t, i - 1))
    /\ ~IsWordChar(CharAt(t, i + Len(k)))
    /\ \A p \in i..(i + Len(k) - 1) : ~InsideLink(t, p)

ValidOccurrences(t, k) == { i \in 0..Len(t) : ValidOccurrence(t, k, i) }

\* The keys of one canonical name.
KeysOf(canonical) ==
    { keys[i] : i \in { j \in 1..Len(keys) : EntityGet(entityMap, keys[j]) = canonical } }

\* C8: one call inserts at most one annotation for a canonical name, however
\* many keys lead to the name and however often they occur in the text.
C8_OneAnnotationPerCanonical ==
    \A i \in 1..Len(annots), j \in 1..Len(annots) :
        i # j => annots[i].canonical # annots[j].canonical

\* C8 witness: the call is over; a name with two keys was annotated through
\* one of them, which occurs twice in the text handed in, and the other key
\* still has an occurrence the scan would accept.
C8_Witness ==
    /\ wpc = "done"
    /\ \E n \in 1..Len(annots) :
          LET a == annots[n] IN
          /\ Cardinality({ i \in 0..Len(content) : OccursIgnoringCase(content, a.key, i) }) >= 2
          /\ \E k \in KeysOf(a.canonical) :
                /\ k # a.key
                /\ \E i \in 0..Len(lower) :
                      OccursAt(lower, k, i) /\ Accepts(lower, linkRanges, i, Len(k))
          /\ \A m \in 1..Len(annots) : m # n => annots[m].canonical # a.canonical

\* Every [[ of t opens a link of its own: none lies within another link.
NoNestedLink(t) ==
    \A i \in 0..Len(t) :
        OccursAt(t, <<"[", "[">>, i) =>
            \E r \in 1..Len(ComputeWikilinkRanges(t)) : ComputeWikilinkRanges(t)[r][1] = i

\* C9: no annotation wraps a character that lies inside a [[...]] span of the
\* text it is put in, be the span one of the input or one inserted before; the
\* output has no link within or across another; a key all of whose
\* occurrences in the input lie inside links is not annotated.
C9_NeverInsideLink ==
    /\ \A n \in 1..Len(annots) :
          \A p \in Wrapped(annots[n]) : ~InsideLink(annots[n].text, p)
    /\ wpc = "done" =>
          /\ NoNestedLink(content) => NoNestedLink(text)
          /\ \A n \in 1..Len(annots) :
                \E i \in 0..Len(content) :
                    /\ OccursIgnoringCase(content, annots[n].key, i)
                    /\ ~InExistingLink(i, ComputeWikilinkRanges(content))

\* C10: for two keys of different canonical names, the shorter a substring of
\* the longer: when the input has a valid occurrence of the longer key, the
\* first valid occurrence of that key is annotated as a link to its canonical
\* name; and the shorter key is never annotated on characters of a valid
\* occurrence of the longer key.
C10_LongerKeyFirst ==
    \A s \in 1..Len(keys), l \in 1..Len(keys) :
        LET kS == keys[s]
            kL == keys[l]
        IN  ( /\ Len(kS) < Len(kL)
              /\ Includes(kL, kS)
              /\ EntityGet(entityMap, kS) # EntityGet(entityMap, kL) ) =>
            /\ (wpc = "done" /\ ValidOccurrences(content, kL) # {}) =>
                  \E n \in 1..Len(annots) :
                      /\ annots[n].key = kL
                      /\ annots[n].canonical = EntityGet(entityMap, kL)
                      /\ annots[n].at \in ValidOccurrences(annots[n].text, kL)
                      /\ \A i \in ValidOccurrences(annots[n].text, kL) : annots[n].at <= i
            /\ \A n \in 1..Len(annots) :
                  annots[n].key = kS =>
                      \A i \in ValidOccurrences(annots[n].text, kL) :
                          \A p \in Wrapped(annots[n]) : p < i \/ p >= i + Len(kL)


(***************************************************************************)
(* The scan loop on a key whose occurrences can overlap: a vault with the  *)
(* note "Ab Ab" (and "Ab"), and a transcription of up to MaxPieces pieces  *)
(* out of a letter, the word "ab" and a space.                             *)
(***************************************************************************)
MaxPieces == 6   \* pieces of the transcription

NameAbAb == <<"A", "b", " ", "A", "b">>

ScanVaults ==
    { <<CurrentFile, File(NameAb, NameAb, <<>>)>>,
      <<CurrentFile, File(NameAbAb, NameAbAb, <<>>)>>,
      <<CurrentFile, File(NameAb, NameAb, <<>>), File(NameAbAb, NameAbAb, <<>>)>> }

Pieces == { <<"x">>, <<"a", "b">>, <<" ">> }

InitScan ==
    /\ notes \in ScanVaults
    /\ content \in { Concat(ws) : ws \in SeqsUpTo(Pieces, MaxPieces) }
    /\ entityMap = <<>>
    /\ keys = <<>>
    /\ text = <<>>
    /\ lower = <<>>
    /\ linkedCanonicals = {}
    /\ linkRanges = <<>>
    /\ ki = 0
    /\ idx = NoOffset
    /\ wpc = "start"
    /\ annots = <<>>
    /\ calls = 1
    /\ RewriteIdle
    /\ CollectIdle
    /\ RunIdle
    /\ ConvertIdle
    /\ ProgressIdle

SpecScan == InitScan /\ [][NextWiki]_vars

\* C11: a key processed while its canonical name is not annotated yet, and
\* with a valid occurrence (word-bounded, outside every link) in the current
\* text, is annotated at the leftmost valid occurrence: every annotation sits
\* on the leftmost valid occurrence of its key, and the scan of a key never
\* runs out of candidates while a valid occurrence is in the text.
C11_LeftmostValidAnnotated ==
    /\ \A n \in 1..Len(annots) :
          /\ annots[n].at \in ValidOccurrences(annots[n].text, annots[n].key)
          /\ \A i \in ValidOccurrences(annots[n].text, annots[n].key) : annots[n].at <= i
    /\ (wpc = "scan" /\ idx = -1) => ValidOccurrences(text, keys[ki]) = {}


(***************************************************************************)
(* wikilinkEntities applied to its own output: up to MaxCalls calls in a   *)
(* row, each on the text the call before returned.                         *)
(***************************************************************************)
MaxCalls == 2   \* calls in a row

TwiceWords == { NameAb, NameAbCd, <<"a", "b">>, <<" ">> }

InitTwice ==
    /\ notes \in Vaults
    /\ content \in { Concat(ws) : ws \in SeqsUpTo(TwiceWords, MaxWords) }
    /\ entityMap = <<>>
    /\ keys = <<>>
    /\ text = <<>>
    /\ lower = <<>>
    /\ linkedCanonicals = {}
    /\ linkRanges = <<>>
    /\ ki = 0
    /\ idx = NoOffset
    /\ wpc = "start"
    /\ annots = <<>>
    /\ calls = 1
    /\ RewriteIdle
    /\ CollectIdle
    /\ RunIdle
    /\ ConvertIdle
    /\ ProgressIdle

\* The text returned becomes the content of a new call; the locals of the
\* call start afresh.
WikiAgain ==
    /\ wpc = "done"
    /\ calls < MaxCalls
    /\ content' = text
    /\ calls' = calls + 1
    /\ entityMap' = <<>>
    /\ keys' = <<>>
    /\ text' = <<>>
    /\ lower' = <<>>
    /\ linkedCanonicals' = {}
    /\ linkRanges' = <<>>
    /\ ki' = 0
    /\ idx' = NoOffset
    /\ wpc' = "start"
    /\ annots' = <<>>
    /\ UNCHANGED notes
    /\ UNCHANGED offWiki

NextTwice ==
    \/ WikiBegin
    \/ WikiKey
    \/ WikiScan
    \/ WikiAgain

SpecTwice == InitTwice /\ [][NextTwice]_vars

\* Text t holds a link to the canonical name: [[Name]] or [[Name|...]].
LinkedIn(t, canonical) ==
    \/ Includes(t, <<"[", "[">> \o canonical \o <<"]", "]">>)
    \/ Includes(t, <<"[", "[">> \o canonical \o <<"|">>)

\* C12: a call of wikilinkEntities on the output of a call inserts no link
\* for a canonical name that is linked in that output already, however often
\* the name occurs in the text.
C12_SecondCallAddsNoLink ==
    calls >= 2 =>
        \A n \in 1..Len(annots) : ~LinkedIn(content, annots[n].canonical)


\* Offsets i .. i+n-1 of t have no letter or digit right before or right after.
WordBounded(t, i, n) ==
    /\ ~IsWordChar(CharAt(t, i - 1))
    /\ ~IsWordChar(CharAt(t, i + n))

\* C13: every annotation wraps an occurrence of its key whose neighbours, in
\* the text at the moment of insertion, are absent or not alphanumeric; and a
\* key that occurs in the input only as part of a longer word is not annotated.
C13_WordBoundedOnly ==
    \A n \in 1..Len(annots) :
        LET a == annots[n] IN
        /\ ToLowerCase(a.matched) = a.key
        /\ WordBounded(a.text, a.at, Len(a.key))
        /\ \E i \in 0..Len(content) :
              OccursIgnoringCase(content, a.key, i) /\ WordBounded(content, i, Len(a.key))


(***************************************************************************)
(* buildEntityMap on vaults in every enumeration order: the current file,  *)
(* "Ab" (with or without an alias that is "Ab Cd" in another case and with *)
(* a space before it), "Ab Cd" (with or without the alias "ab"), and a     *)
(* file of another folder with the base name of the current file (with or  *)
(* without a blank alias); the transcription has up to MaxIndexWords       *)
(* pieces.                                                                 *)
(***************************************************************************)
MaxIndexWords == 3   \* pieces of the transcription

AliasAbCdLoose == <<" ", "A", "B", " ", "c", "d">>
AliasAbLower == <<"a", "b">>
AliasBlank == <<" ">>

IndexPool ==
    { File(NameAb, NameAb, al) : al \in {<<>>, <<AliasAbCdLoose>>} }
    \cup { File(NameAbCd, NameAbCd, al) : al \in {<<>>, <<AliasAbLower>>} }
    \cup { File(<<"E">> \o CurrentFile.basename, CurrentFile.basename, al) :
               al \in {<<>>, <<AliasBlank>>} }

\* Every order of a set of files.
Orderings(S) ==
    { l \in [1..Cardinality(S) -> S] :
        \A i \in 1..Cardinality(S), j \in 1..Cardinality(S) : i # j => l[i] # l[j] }

IndexVaults ==
    UNION { Orderings(S \cup {CurrentFile}) :
              S \in { T \in SUBSET IndexPool :
                        \A f \in T, g \in T : f # g => f.path # g.path } }

IndexWords == { NameAb, NameAbCd, CurrentFile.basename, <<" ">> }

InitIndex ==
    /\ notes \in IndexVaults
    /\ content \in { Concat(ws) : ws \in SeqsUpTo(IndexWords, MaxIndexWords) }
    /\ entityMap = <<>>
    /\ keys = <<>>
    /\ text = <<>>
    /\ lower = <<>>
    /\ linkedCanonicals = {}
    /\ linkRanges = <<>>
    /\ ki = 0
    /\ idx = NoOffset
    /\ wpc = "start"
    /\ annots = <<>>
    /\ calls = 1
    /\ RewriteIdle
    /\ CollectIdle
    /\ RunIdle
    /\ ConvertIdle
    /\ ProgressIdle

SpecIndex == InitIndex /\ [][NextWiki]_vars


\* The files buildEntityMap looks at, as positions of notes.
Others == { k \in 1..Len(notes) : notes[k].path # CurrentFile.path }

\* File f offers the key: it is the lower case of its name or of one of its
\* aliases, the blanks around the alias apart.
Registers(f, key) ==
    \/ ToLowerCase(f.basename) = key
    \/ \E a \in 1..Len(f.aliases) :
          Trim(f.aliases[a]) # <<>> /\ ToLowerCase(Trim(f.aliases[a])) = key

\* The first file in enumeration order that offers the key.
FirstRegistrant(key) ==
    CHOOSE k \in Others :
        Registers(notes[k], key) /\ \A j \in Others : Registers(notes[j], key) => k <= j

\* C14 as claimed: in the index, the lower case of the name of every file but
\* the current one is a key and leads to that file's own name, whatever the
\* enumeration order and whatever aliases earlier files declare.
C14_NameMapsToOwnDocument ==
    wpc # "start" =>
        \A k \in Others :
            /\ EntityHas(entityMap, ToLowerCase(notes[k].basename))
            /\ EntityGet(entityMap, ToLowerCase(notes[k].basename)) = notes[k].basename

\* C14 amended: the lower case of the name of every file but the current one
\* is a key, and it leads to that file's own name provided no file earlier in
\* the enumeration has that name or an alias equal to it, case apart.
C14_NameMapsToOwnUnlessTaken ==
    wpc # "start" =>
        \A k \in Others :
            /\ EntityHas(entityMap, ToLowerCase(notes[k].basename))
            /\ (\A j \in Others : j < k => ~Registers(notes[j], ToLowerCase(notes[k].basename)))
                  => EntityGet(entityMap, ToLowerCase(notes[k].basename)) = notes[k].basename

\* C14 witness: the index is built; a file declares an alias equal, case
\* apart, to the name of a file earlier in the enumeration, and that name
\* still leads to the earlier file.
C14_Witness ==
    /\ wpc # "start"
    /\ \E k \in Others, j \in Others :
          /\ k < j
          /\ notes[j].basename # notes[k].basename
          /\ Registers(notes[j], ToLowerCase(notes[k].basename))
          /\ EntityGet(entityMap, ToLowerCase(notes[k].basename)) = notes[k].basename

\* C15: a key of the index is never overwritten: it leads to the name of the
\* first file of the enumeration that offers it, by its name or by an alias,
\* and every annotation made through the key links to that name.
C15_FirstWriterWins ==
    wpc # "start" =>
        /\ \A i \in 1..Len(entityMap), j \in 1..Len(entityMap) :
              i # j => entityMap[i].key # entityMap[j].key
        /\ \A i \in 1..Len(entityMap) :
              entityMap[i].canonical = notes[FirstRegistrant(entityMap[i].key)].basename
        /\ \A n \in 1..Len(annots) :
              /\ annots[n].canonical = notes[FirstRegistrant(annots[n].key)].basename
              /\ LinkedIn(text, annots[n].canonical)

\* C15 witness: the call is over and has annotated an occurrence of a key
\* that a later file of another name offers too.
C15_Witness ==
    /\ wpc = "done"
    /\ \E n \in 1..Len(annots), j \in Others :
          /\ j > FirstRegistrant(annots[n].key)
          /\ Registers(notes[j], annots[n].key)
          /\ notes[j].basename # annots[n].canonical

\* C16: the index has no entry whose canonical name is the name of the
\* current file, and no annotation links to that name, also when another
\* file of the vault has the same base name at another path.
C16_NoSelfLink ==
    wpc # "start" =>
        /\ \A i \in 1..Len(entityMap) : entityMap[i].canonical # CurrentFile.basename
        /\ \A n \in 1..Len(annots) : annots[n].canonical # CurrentFile.basename


\* The characters of the text that annotation a was put in which form the
\* occurrence of its key at the offset of the annotation.
Written(a) == Slice(a.text, a.at, a.at + Len(a.key))

\* C17: every annotation replaces an occurrence of its key by [[Canonical]]
\* when the occurrence as written equals the canonical name character for
\* character, and by [[Canonical|occurrence as written]] otherwise, also when
\* the key is an alias; the text around the occurrence is kept.
C17_DisplayIsMatchedText ==
    \A n \in 1..Len(annots) :
        LET a == annots[n] IN
        /\ ToLowerCase(Written(a)) = a.key
        /\ a.after = Slice(a.text, 0, a.at)
                     \o (IF Written(a) = a.canonical
                         THEN <<"[", "[">> \o a.canonical \o <<"]", "]">>
                         ELSE <<"[", "[">> \o a.canonical \o <<"|">> \o Written(a) \o <<"]", "]">>)
                     \o SliceFrom(a.text, a.at + Len(a.key))


(***************************************************************************)
(* collectImagesFromNote (services/imageCollector).  The alt text of a     *)
(* reference is carried along by the code and left out here.               *)
(***************************************************************************)
\* /^[a-z]+:\/\//i.test(s)
IsExternalUrl(s) ==
    \E n \in 1..Len(s) :
        /\ \A k \in 1..n : s[k] \in LowerLetters \cup UpperLetters
        /\ OccursAt(s, <<":", "/", "/">>, n)

\* The alternatives of (png|jpe?g|webp|gif|bmp|tif?f|heic|heif).
ImageExtensions ==
    { <<"p", "n", "g">>, <<"j", "p", "g">>, <<"j", "p", "e", "g">>, <<"w", "e", "b", "p">>,
      <<"g", "i", "f">>, <<"b", "m", "p">>, <<"t", "i", "f">>, <<"t", "i", "f", "f">>,
      <<"h", "e", "i", "c">>, <<"h", "e", "i", "f">> }

\* /\.(png|jpe?g|webp|gif|bmp|tif?f|heic|heif)$/i.test(s)
HasImageExtension(s) ==
    \E ext \in ImageExtensions :
        /\ Len(s) > Len(ext)
        /\ OccursAt(ToLowerCase(s), <<".">> \o ext, Len(s) - Len(ext) - 1)

\* The tests before the resolution: a raw link, not an external URL, with an
\* image extension once the pipe suffix is stripped.
IsCandidate(rawLink) ==
    /\ rawLink # <<>>
    /\ ~IsExternalUrl(rawLink)
    /\ HasImageExtension(Trim(SplitPipeFirst(rawLink)))

\* The file of a candidate, or NoPath.
ResolvedOf(rawLink) == GetFirstLinkpathDest(Trim(SplitPipeFirst(rawLink)))

ImageRef(file, entry) == [file |-> file, at |-> entry.start]

\* cache?.embeds ?? [] and cache?.links ?? []
EmbedsOf(c) == IF c.present THEN c.embeds ELSE <<>>
LinksOf(c) == IF c.present THEN c.links ELSE <<>>

\* const cache = ...; const results = []; const seen = new Set();
CollectBegin ==
    /\ cpc = "start"
    /\ results' = <<>>
    /\ seen' = {}
    /\ ei' = 1
    /\ cpc' = "embeds"
    /\ UNCHANGED <<limit, li, cache>>
    /\ UNCHANGED offCollect

\* One turn of the loop over the embeds, or its end.
CollectEmbed ==
    /\ cpc = "embeds"
    /\ IF ei > Len(EmbedsOf(cache))
       THEN /\ cpc' = "links"
            /\ li' = 1
            /\ UNCHANGED <<results, seen, ei>>
       ELSE LET e == EmbedsOf(cache)[ei] IN
            IF ~IsCandidate(e.link)
            THEN /\ ei' = ei + 1
                 /\ UNCHANGED <<results, seen, li, cpc>>
            ELSE /\ IF ResolvedOf(e.link) # NoPath
                    THEN /\ results' = Append(results, ImageRef(ResolvedOf(e.link), e))
                         /\ seen' = seen \cup {ResolvedOf(e.link)}
                    ELSE UNCHANGED <<results, seen>>
                 /\ IF Len(results') >= limit
                    THEN /\ cpc' = "links"
                         /\ li' = 1
                         /\ UNCHANGED ei
                    ELSE /\ ei' = ei + 1
                         /\ UNCHANGED <<li, cpc>>
    /\ UNCHANGED <<limit, cache>>
    /\ UNCHANGED offCollect

\* One turn of the loop over the links, or its end and the return.
CollectLink ==
    /\ cpc = "links"
    /\ IF li > Len(LinksOf(cache))
       THEN /\ cpc' = "done"
            /\ UNCHANGED <<results, seen, li>>
       ELSE LET l == LinksOf(cache)[li] IN
            IF ~IsCandidate(l.link)
            THEN /\ li' = li + 1
                 /\ UNCHANGED <<results, seen, cpc>>
            ELSE /\ IF ResolvedOf(l.link) # NoPath /\ ResolvedOf(l.link) \notin seen
                    THEN /\ results' = Append(results, ImageRef(ResolvedOf(l.link), l))
                         /\ seen' = seen \cup {ResolvedOf(l.link)}
                    ELSE UNCHANGED <<results, seen>>
                 /\ IF Len(results') >= limit
                    THEN /\ cpc' = "done"
                         /\ UNCHANGED li
                    ELSE /\ li' = li + 1
                         /\ UNCHANGED cpc
    /\ UNCHANGED <<limit, ei, cache>>
    /\ UNCHANGED offCollect

NextCollect ==
    \/ CollectBegin
    \/ CollectEmbed
    \/ CollectLink

(***************************************************************************)
(* The inputs of collectImagesFromNote: a note of up to MaxRefs            *)
(* constructs, each an embed or a link with one of the raw link texts,     *)
(* reported by the parser in two lists, each in the order of the note; a   *)
(* limit of 1 to MaxLimit.                                                 *)
(***************************************************************************)
MaxRefs == 3    \* constructs of the note
MaxLimit == 3   \* the image limit

RawImageLinks ==
    { Tail(ImgA), Tail(ImgA) \o <<"|", "9">>, Tail(ImgB), Tail(NoteN),
      <<"u", ".", "p", "n", "g">>, <<"x", ":", "/", "/", "a", ".", "p", "n", "g">> }

\* The k-th construct of the note takes the offsets 10k .. 10k+8.
Construct(k, rawLink) == [link |-> rawLink, start |-> 10 * k, end |-> 10 * k + 8]

\* The entries of the constructs of one kind, in the order of the note.
RECURSIVE EntriesOfKind(_, _, _)
EntriesOfKind(doc, kind, k) ==
    IF k > Len(doc) THEN <<>>
    ELSE (IF doc[k].kind = kind THEN <<Construct(k, doc[k].link)>> ELSE <<>>)
         \o EntriesOfKind(doc, kind, k + 1)

CollectCaches ==
    {NoCache} \cup
    { [present |-> TRUE,
       embeds |-> EntriesOfKind(doc, "embed", 1),
       links |-> EntriesOfKind(doc, "link", 1)] :
         doc \in SeqsUpTo([kind : {"embed", "link"}, link : RawImageLinks], MaxRefs) }

InitCollect ==
    /\ cache \in CollectCaches
    /\ limit \in 1..MaxLimit
    /\ results = <<>>
    /\ seen = {}
    /\ ei = 0
    /\ li = 0
    /\ cpc = "start"
    /\ noteText = <<>>
    /\ replacements = <<>>
    /\ pc = "idle"
    /\ original = <<>>
    /\ ops = <<>>
    /\ opsIn = <<>>
    /\ updated = <<>>
    /\ writes = 0
    /\ before = <<>>
    /\ WikiIdle
    /\ RunIdle
    /\ ConvertIdle
    /\ ProgressIdle

SpecCollect == InitCollect /\ [][NextCollect]_vars

\* C18: collectImagesFromNote returns at most limit references, for every
\* limit of one or more and whatever the two lists hold.
C18_AtMostLimit ==
    cpc = "done" => Len(results) <= limit

\* C19: collectImagesFromNote returns the images in their order in the note:
\* of two references returned, the one whose construct starts first is first.
C19_OrderOfAppearance ==
    cpc = "done" =>
        \A i \in 1..Len(results), j \in 1..Len(results) :
            i < j => results[i].at < results[j].at


(***************************************************************************)
(* processImagesInCurrentNote (main.ts): the run of the command, with      *)
(* collectImagesFromNote and rewriteNoteLinks as the calls it awaits.      *)
(* The services outside the vault (image preparation, OCR, the model) are  *)
(* choices among their outcomes.                                           *)
(***************************************************************************)
\* /\.hei[cf]$/i.test(name)
IsHeicName(name) ==
    \E ext \in { <<"h", "e", "i", "c">>, <<"h", "e", "i", "f">> } :
        /\ Len(name) > Len(ext)
        /\ OccursAt(ToLowerCase(name), <<".">> \o ext, Len(name) - Len(ext) - 1)

\* String.prototype.replace(from, to) with a string pattern: the first
\* occurrence only.
ReplaceFirst(t, from, to) ==
    IF IndexOf(t, from) = -1 THEN t
    ELSE Slice(t, 0, IndexOf(t, from)) \o to \o SliceFrom(t, IndexOf(t, from) + Len(from))

\* new Date().toISOString().replace("T", " ").substring(0, 19)
Timestamp(iso) == Slice(ReplaceFirst(iso, <<"T">>, <<" ">>), 0, 19)

\* `## Longhand transcription (${timestamp})`
Heading(timestamp) ==
    <<"#", "#", " ", "L", "o", "n", "g", "h", "a", "n", "d", " ", "t", "r", "a", "n", "s",
      "c", "r", "i", "p", "t", "i", "o", "n", " ", "(">> \o timestamp \o <<")">>

\* NewContent with the old text of the note left out.
NewContentAlone(head, output, old) == head \o <<"\n", "\n">> \o Trim(output) \o <<"\n", "\n">>

\* `${heading}\n\n${modelOutput.trim()}\n\n${original}`
NewContent(head, output, old) == head \o <<"\n", "\n">> \o Trim(output) \o <<"\n", "\n">> \o old

\* images.slice(0, imageLimit) when the list is longer than the limit
Capped(list, n) == IF Len(list) > n THEN SubSeq(list, 1, n) ELSE list

\* The paths of the HEIC images of a list.
HeicPaths(list) ==
    { list[i].file : i \in { j \in 1..Len(list) : IsHeicName(FileName(list[j].file)) } }

\* What openAiTranscription may return: nothing, blanks, a text, a text with
\* white space around it.
ModelOutputs == { <<>>, <<" ", "\n">>, <<"T", " ", "t">>, <<"\n", "T", " ", "\n">> }

\* new Date().toISOString()
IsoNows ==
    { <<"2", "0", "2", "5", "-", "0", "1", "-", "0", "2", "T", "0", "3", ":", "0", "4",
        ":", "0", "5", ".", "6", "7", "8", "Z">> }

\* progress.start; the tests of the active file and of the keys; the call of
\* collectImagesFromNote.
RunStart ==
    /\ rpc = "start"
    /\ IF ~settings.activeFile \/ ~settings.openaiApiKey \/ ~settings.azure
       THEN /\ reported' = Append(reported, "fail")
            /\ disposed' = TRUE
            /\ rpc' = "finished"
            /\ UNCHANGED <<cpc, limit>>
       ELSE /\ cpc' = "start"
            /\ limit' = settings.imageLimit
            /\ rpc' = "collecting"
            /\ UNCHANGED <<reported, disposed>>
    /\ UNCHANGED <<noteText, cache, replacements, pc, original, ops, updated, writes,
                   opsIn, before, results, seen, ei, li, settings, images, modelOutput,
                   runOriginal, heading, inserted, offRun, cvVars>>

\* collectImagesFromNote throws: "Failed to parse images from note."
RunCollectFails ==
    /\ rpc = "collecting"
    /\ cpc = "start"
    /\ cpc' = "failed"
    /\ reported' = Append(reported, "fail")
    /\ disposed' = TRUE
    /\ rpc' = "finished"
    /\ UNCHANGED <<noteText, cache, replacements, pc, original, ops, updated, writes,
                   opsIn, before, limit, results, seen, ei, li, settings, images,
                   modelOutput, runOriginal, heading, inserted, offRun, cvVars>>

\* collectImagesFromNote has returned: no image is a failure, a list longer
\* than the limit is cut.
RunCollected ==
    /\ rpc = "collecting"
    /\ cpc = "done"
    /\ images' = Capped(results, settings.imageLimit)
    /\ IF Len(results) = 0
       THEN /\ reported' = Append(reported, "fail")
            /\ disposed' = TRUE
            /\ rpc' = "finished"
       ELSE /\ rpc' = "heic"
            /\ UNCHANGED <<reported, disposed>>
    /\ UNCHANGED <<noteText, cache, replacements, pc, original, ops, updated, writes,
                   opsIn, before, limit, results, seen, ei, li, cpc, settings,
                   modelOutput, runOriginal, heading, inserted, offRun, cvVars>>

\* One step of the loop over the images, and what follows it: an image that
\* is not a HEIC file is passed, a HEIC file is handed to
\* convertHeicVaultFileToJpeg; after the last image rewriteNoteLinks is called
\* when a replacement was made.
RunConvert ==
    /\ rpc = "heic"
    /\ IF ~settings.replaceHeicEmbedsInNote
       THEN /\ rpc' = "prepare"
            /\ UNCHANGED <<pc, before, ri, heicFile, vpc>>
       ELSE IF ri = Len(images)
       THEN /\ IF DOMAIN replacements = {}
               THEN /\ rpc' = "prepare"
                    /\ UNCHANGED <<pc, before>>
               ELSE /\ rpc' = "rewriting"
                    /\ pc' = "start"
                    /\ before' = noteText
            /\ UNCHANGED <<ri, heicFile, vpc>>
       ELSE IF ~IsHeicName(FileName(images[ri + 1].file))
       THEN /\ ri' = ri + 1
            /\ UNCHANGED <<rpc, pc, before, heicFile, vpc>>
       ELSE /\ heicFile' = images[ri + 1].file
            /\ vpc' = "start"
            /\ rpc' = "converting"
            /\ UNCHANGED <<pc, before, ri>>
    /\ UNCHANGED <<noteText, cache, replacements, original, ops, updated, writes, opsIn,
                   limit, results, seen, ei, li, cpc, settings, images, modelOutput,
                   runOriginal, heading, inserted, reported, disposed, vaultPaths,
                   outPath, counter, created, offRun>>

\* What convertHeicVaultFileToJpeg leaves alone.
offConvert == <<rwVars, ciVars, runVars, ri, heicFile, wkVars, pgVars>>

\* convertHeicVaultFileToJpeg reads the file and converts its bytes, which
\* may throw; then the first candidate path is `${base}.jpg`.
ConvertBegin ==
    /\ vpc = "start"
    /\ \/ /\ outPath' = OutPathOf(heicFile, 0)
          /\ counter' = 1
          /\ vpc' = "exists"
       \/ /\ vpc' = "threw"
          /\ UNCHANGED <<outPath, counter>>
    /\ UNCHANGED <<vaultPaths, created, offConvert>>

\* ConvertExists without the test: the candidate is taken as it is.
ConvertExistsUntested ==
    /\ vpc = "exists"
    /\ vpc' = "create"
    /\ UNCHANGED <<outPath, counter, vaultPaths, created, offConvert>>

\* One test of the while loop: a path that exists gives way to the next
\* numbered candidate.
ConvertExists ==
    /\ vpc = "exists"
    /\ IF outPath \in vaultPaths
       THEN /\ outPath' = OutPathOf(heicFile, counter)
            /\ counter' = counter + 1
            /\ UNCHANGED vpc
       ELSE /\ vpc' = "create"
            /\ UNCHANGED <<outPath, counter>>
    /\ UNCHANGED <<vaultPaths, created, offConvert>>

\* app.vault.createBinary(outPath, jpegBytes): the file is created, or the
\* call throws.
ConvertCreate ==
    /\ vpc = "create"
    /\ \/ /\ vaultPaths' = vaultPaths \cup {outPath}
          /\ created' = Append(created, [from |-> heicFile, path |-> outPath,
                                         existing |-> vaultPaths])
          /\ vpc' = "returned"
       \/ /\ vpc' = "threw"
          /\ UNCHANGED <<vaultPaths, created>>
    /\ UNCHANGED <<outPath, counter, offConvert>>

\* The conversion has returned the created file: replacements.set(r.file.path,
\* jpg.path), and the loop goes on.
RunConverted ==
    /\ rpc = "converting"
    /\ vpc = "returned"
    /\ replacements' = [p \in DOMAIN replacements \cup {heicFile} |->
                          IF p = heicFile THEN outPath ELSE replacements[p]]
    /\ ri' = ri + 1
    /\ vpc' = "idle"
    /\ rpc' = "heic"
    /\ UNCHANGED <<noteText, cache, pc, original, ops, updated, writes, opsIn, before,
                   ciVars, settings, images, modelOutput, runOriginal, heading, inserted,
                   reported, disposed, vaultPaths, heicFile, outPath, counter, created,
                   offRun>>

\* The conversion has thrown: a warning, and the loop goes on.
RunConvertFails ==
    /\ rpc = "converting"
    /\ vpc = "threw"
    /\ ri' = ri + 1
    /\ vpc' = "idle"
    /\ rpc' = "heic"
    /\ UNCHANGED <<rwVars, ciVars, settings, images, modelOutput, runOriginal, heading,
                   inserted, reported, disposed, vaultPaths, heicFile, outPath, counter,
                   created, offRun>>

\* rewriteNoteLinks throws at its read or at its write: a warning, and the
\* run goes on with the images it has.
RunRewriteFails ==
    /\ rpc = "rewriting"
    /\ pc \in {"read", "write"}
    /\ pc' = "failed"
    /\ rpc' = "prepare"
    /\ UNCHANGED <<noteText, cache, replacements, original, ops, updated, writes, opsIn,
                   before, limit, results, seen, ei, li, cpc, settings, images,
                   modelOutput, runOriginal, heading, inserted, reported, disposed,
                   offRun, cvVars>>

\* rewriteNoteLinks has returned: the images are collected again.
RunRewritten ==
    /\ rpc = "rewriting"
    /\ pc = "done"
    /\ cpc' = "start"
    /\ rpc' = "recollecting"
    /\ UNCHANGED <<noteText, cache, replacements, pc, original, ops, updated, writes,
                   opsIn, before, limit, results, seen, ei, li, settings, images,
                   modelOutput, runOriginal, heading, inserted, reported, disposed,
                   offRun, cvVars>>

\* The second collectImagesFromNote has returned.
RunRecollected ==
    /\ rpc = "recollecting"
    /\ cpc = "done"
    /\ images' = Capped(results, settings.imageLimit)
    /\ rpc' = "prepare"
    /\ UNCHANGED <<noteText, cache, replacements, pc, original, ops, updated, writes,
                   opsIn, before, limit, results, seen, ei, li, cpc, settings,
                   modelOutput, runOriginal, heading, inserted, reported, disposed,
                   offRun, cvVars>>

\* The loop that prepares the images and runs the OCR: an image that cannot
\* be prepared is left out, a failed OCR gives an empty text; no image left
\* for the model is a failure.
RunPrepare ==
    /\ rpc = "prepare"
    /\ \E anyLlmImages \in BOOLEAN :
          /\ anyLlmImages => Len(images) > 0
          /\ IF anyLlmImages
             THEN /\ rpc' = "openai"
                  /\ UNCHANGED <<reported, disposed>>
             ELSE /\ reported' = Append(reported, "fail")
                  /\ disposed' = TRUE
                  /\ rpc' = "finished"
    /\ UNCHANGED <<noteText, cache, replacements, pc, original, ops, updated, writes,
                   opsIn, before, limit, results, seen, ei, li, cpc, settings, images,
                   modelOutput, runOriginal, heading, inserted, offRun, cvVars>>

\* RunOpenAi without the return after progress.fail: the run goes on to
\* the write.
RunOpenAiGoesOn ==
    /\ rpc = "openai"
    /\ \E answered \in BOOLEAN, output \in ModelOutputs :
          /\ modelOutput' = IF answered THEN output ELSE modelOutput
          /\ IF answered /\ Trim(output) # <<>>
             THEN UNCHANGED <<reported, disposed>>
             ELSE /\ reported' = Append(reported, "fail")
                  /\ disposed' = TRUE
    /\ rpc' = "write"
    /\ UNCHANGED <<noteText, cache, replacements, pc, original, ops, updated, writes,
                   opsIn, before, limit, results, seen, ei, li, cpc, settings, images,
                   runOriginal, heading, inserted, offRun, cvVars>>

\* openAiTranscription: it throws, or returns a text; an empty or blank
\* text is a failure.
RunOpenAi ==
    /\ rpc = "openai"
    /\ \E answered \in BOOLEAN, output \in ModelOutputs :
          /\ modelOutput' = IF answered THEN output ELSE modelOutput
          /\ IF answered /\ Trim(output) # <<>>
             THEN /\ rpc' = "write"
                  /\ UNCHANGED <<reported, disposed>>
             ELSE /\ reported' = Append(reported, "fail")
                  /\ disposed' = TRUE
                  /\ rpc' = "finished"
    /\ UNCHANGED <<noteText, cache, replacements, pc, original, ops, updated, writes,
                   opsIn, before, limit, results, seen, ei, li, cpc, settings, images,
                   runOriginal, heading, inserted, offRun, cvVars>>

\* The note is read, the new content is made and written; a write that
\* throws is a failure.
RunWrite ==
    /\ rpc = "write"
    /\ runOriginal' = noteText
    /\ \E iso \in IsoNows, written \in BOOLEAN :
          /\ heading' = Heading(Timestamp(iso))
          /\ IF written
             THEN /\ noteText' = NewContent(heading', modelOutput, runOriginal')
                  /\ inserted' = inserted + 1
                  /\ reported' = Append(reported, "done")
             ELSE /\ reported' = Append(reported, "fail")
                  /\ UNCHANGED <<noteText, inserted>>
    /\ disposed' = TRUE
    /\ rpc' = "finished"
    /\ UNCHANGED <<cache, replacements, pc, original, ops, updated, writes, opsIn,
                   before, limit, results, seen, ei, li, cpc, settings, images,
                   modelOutput, offRun, cvVars>>

(***************************************************************************)
(* The inputs of a run: a note of up to MaxRunRefs image constructs (an    *)
(* embed of a HEIC image, an embed of a PNG image, a link to the HEIC      *)
(* image), each followed by a letter; the parser cache of that note, or    *)
(* none; the settings.                                                     *)
(***************************************************************************)
RunConstructs ==
    { [kind |-> "embed", link |-> Tail(ImgB)],
      [kind |-> "embed", link |-> Tail(ImgA)],
      [kind |-> "link", link |-> Tail(ImgB)] }

ConstructText(c) ==
    IF c.kind = "embed"
    THEN <<"!", "[", "[">> \o c.link \o <<"]", "]">>
    ELSE <<"[", "s", "]", "(">> \o c.link \o <<")">>

RECURSIVE RunNote(_)
RunNote(doc) ==
    IF doc = <<>> THEN <<>> ELSE ConstructText(Head(doc)) \o Filler \o RunNote(Tail(doc))

\* The entries of the constructs of one kind, with their offsets in the note.
RECURSIVE RunEntries(_, _, _)
RunEntries(doc, kind, offset) ==
    IF doc = <<>> THEN <<>>
    ELSE (IF Head(doc).kind = kind
          THEN <<[link |-> Head(doc).link, start |-> offset,
                  end |-> offset + Len(ConstructText(Head(doc)))]>>
          ELSE <<>>)
         \o RunEntries(Tail(doc), kind, offset + Len(ConstructText(Head(doc))) + Len(Filler))

RunCache(doc) ==
    [present |-> TRUE, embeds |-> RunEntries(doc, "embed", 0), links |-> RunEntries(doc, "link", 0)]

RunSettings ==
    [activeFile : {TRUE}, openaiApiKey : {TRUE}, azure : {TRUE},
     replaceHeicEmbedsInNote : BOOLEAN, imageLimit : 1..MaxLimit]
    \cup { [activeFile |-> a, openaiApiKey |-> k, azure |-> z,
            replaceHeicEmbedsInNote |-> TRUE, imageLimit |-> 1] :
              <<a, k, z>> \in { <<FALSE, TRUE, TRUE>>, <<TRUE, FALSE, TRUE>>,
                                <<TRUE, TRUE, FALSE>> } }

(***************************************************************************)
(* The parser cache of the note.  Obsidian parses a note again after it    *)
(* was written, on its own schedule: the cache getFileCache returns is     *)
(* the parse of an earlier content until then.  The parse lists the        *)
(* ![[...]] embeds and the [text](destination) links, a destination        *)
(* holding no white space.                                                 *)
(***************************************************************************)
HasWhiteSpace(t) == \E i \in 1..Len(t) : t[i] \in WhiteSpace

\* The embed that starts at offset i of t, as a list of one entry or none.
EmbedAt(t, i) ==
    LET close == IndexOfFrom(t, <<"]", "]">>, i + 3)
    IN  IF OccursAt(t, <<"!", "[", "[">>, i) /\ close # -1
        THEN <<[link |-> Slice(t, i + 3, close), start |-> i, end |-> close + 2]>>
        ELSE <<>>

\* The link that starts at offset i of t, as a list of one entry or none.
LinkAt(t, i) ==
    LET mid   == IndexOfFrom(t, <<"]", "(">>, i + 1)
        close == IF mid = -1 THEN -1 ELSE IndexOfFrom(t, <<")">>, mid + 2)
    IN  IF /\ OccursAt(t, <<"[">>, i)
           /\ ~OccursAt(t, <<"[", "[">>, i)
           /\ (i = 0 \/ ~OccursAt(t, <<"!">>, i - 1))
           /\ close # -1
           /\ ~Includes(Slice(t, i + 1, mid), <<"[">>)
           /\ ~HasWhiteSpace(Slice(t, mid + 2, close))
        THEN <<[link |-> Slice(t, mid + 2, close), start |-> i, end |-> close + 1]>>
        ELSE <<>>

\* The entries of one kind from offset i on, a construct found being passed
\* whole.
RECURSIVE ParseFrom(_, _, _)
ParseFrom(t, i, kind) ==
    IF i >= Len(t) THEN <<>>
    ELSE IF EmbedAt(t, i) # <<>>
    THEN (IF kind = "embed" THEN EmbedAt(t, i) ELSE <<>>)
         \o ParseFrom(t, EmbedAt(t, i)[1].end, kind)
    ELSE IF LinkAt(t, i) # <<>>
    THEN (IF kind = "link" THEN LinkAt(t, i) ELSE <<>>)
         \o ParseFrom(t, LinkAt(t, i)[1].end, kind)
    ELSE ParseFrom(t, i + 1, kind)

ParseCache(t) ==
    [present |-> TRUE, embeds |-> ParseFrom(t, 0, "embed"), links |-> ParseFrom(t, 0, "link")]

\* The parser cache catches up with the note.  collectImagesFromNote has no
\* await, and rewriteNoteLinks holds the cache object it took at its start,
\* so neither sees a refresh while it runs.
CacheRefresh ==
    /\ rpc # "idle"
    /\ cpc \notin {"embeds", "links"}
    /\ pc \notin {"read", "collect", "splice", "write"}
    /\ cache # ParseCache(noteText)
    /\ cache' = ParseCache(noteText)
    /\ UNCHANGED <<noteText, replacements, pc, original, ops, updated, writes, opsIn,
                   before, ciVars, runVars, cvVars, offRun>>

InitRun ==
    /\ \E doc \in SeqsUpTo(RunConstructs, MaxRunRefs) :
          /\ noteText = RunNote(doc)
          /\ cache \in {RunCache(doc), NoCache}
    /\ settings \in RunSettings
    /\ rpc = "start"
    /\ images = <<>>
    /\ modelOutput = <<>>
    /\ runOriginal = <<>>
    /\ heading = <<>>
    /\ inserted = 0
    /\ reported = <<>>
    /\ disposed = FALSE
    /\ replacements = <<>>
    /\ pc = "idle"
    /\ original = <<>>
    /\ ops = <<>>
    /\ opsIn = <<>>
    /\ updated = <<>>
    /\ writes = 0
    /\ before = <<>>
    /\ CollectIdle
    /\ WikiIdle
    /\ vaultPaths \in { {ImgA, ImgB, NoteN}, {ImgA, ImgB, NoteN, JpgB} }
    /\ ri = 0
    /\ heicFile = NoPath
    /\ outPath = NoPath
    /\ counter = 0
    /\ vpc = "idle"
    /\ created = <<>>
    /\ ProgressIdle

NextRun ==
    \/ RunStart
    \/ RunCollectFails
    \/ RunCollected
    \/ RunConvert
    \/ ConvertBegin
    \/ ConvertExists
    \/ ConvertCreate
    \/ RunConverted
    \/ RunConvertFails
    \/ RunRewriteFails
    \/ RunRewritten
    \/ RunRecollected
    \/ RunPrepare
    \/ RunOpenAi
    \/ RunWrite
    \/ CollectBegin
    \/ CollectEmbed
    \/ CollectLink
    \/ RewriteBegin
    \/ RewriteRead
    \/ RewriteCollect
    \/ RewriteSplice
    \/ RewriteWrite
    \/ CacheRefresh

SpecRun == InitRun /\ [][NextRun]_vars

\* The first line of a text: what precedes its first line feed.
FirstLine(t) == IF IndexOf(t, <<"\n">>) = -1 THEN t ELSE Slice(t, 0, IndexOf(t, <<"\n">>))

MaxHeics == 3   \* images handed to the loop

HeicFiles == {ImgB, ImgF, ImgC}

TakenPaths == SUBSET {OutPathOf(ImgB, 0), OutPathOf(ImgB, 1)}

InitConvert ==
    /\ \E list \in SeqsUpTo(HeicFiles, MaxHeics) :
          images = [i \in 1..Len(list) |-> [file |-> list[i], at |-> i]]
    /\ \E taken \in TakenPaths : vaultPaths = HeicFiles \cup taken
    /\ settings = [activeFile |-> TRUE, openaiApiKey |-> TRUE, azure |-> TRUE,
                   replaceHeicEmbedsInNote |-> TRUE, imageLimit |-> MaxHeics]
    /\ rpc = "heic"
    /\ modelOutput = <<>>
    /\ runOriginal = <<>>
    /\ heading = <<>>
    /\ inserted = 0
    /\ reported = <<>>
    /\ disposed = FALSE
    /\ ri = 0
    /\ heicFile = NoPath
    /\ outPath = NoPath
    /\ counter = 0
    /\ vpc = "idle"
    /\ created = <<>>
    /\ RewriteIdle
    /\ CollectIdle
    /\ WikiIdle
    /\ ProgressIdle

NextConvert ==
    \/ RunConvert
    \/ ConvertBegin
    \/ ConvertExists
    \/ ConvertCreate
    \/ RunConverted
    \/ RunConvertFails

SpecConvert == InitConvert /\ [][NextConvert]_vars

\* The number of the candidate path a conversion took: 0 for `${base}.jpg`.
NumberOf(c) == CHOOSE n \in 0..(Cardinality(c.existing) + 1) : c.path = OutPathOf(c.from, n)

\* C21: every file convertHeicVaultFileToJpeg creates is at a path that did
\* not exist when it was tested, in the folder of the source file: it is
\* <base>.jpg when that path was free, and otherwise <base> (n).jpg for the
\* smallest n >= 1 whose path did not exist; no two files created in a run
\* are at the same path.
C21_FreshOutputPath ==
    \A i \in 1..Len(created) :
        LET c == created[i] IN
        /\ c.path \notin c.existing
        /\ Head(c.path) = Head(c.from)
        /\ \E n \in 0..(Cardinality(c.existing) + 1) : c.path = OutPathOf(c.from, n)
        /\ OutPathOf(c.from, 0) \notin c.existing => c.path = OutPathOf(c.from, 0)
        /\ \A m \in 1..(NumberOf(c) - 1) : OutPathOf(c.from, m) \in c.existing
        /\ NumberOf(c) > 0 => OutPathOf(c.from, 0) \in c.existing
        /\ \A j \in 1..Len(created) : j # i => created[j].path # c.path

\* C21 witness: two different HEIC files of the same base name were converted
\* one after the other in a vault where <base>.jpg and <base> (1).jpg were
\* taken, and got <base> (2).jpg and <base> (3).jpg.
C21_Witness ==
    /\ Len(created) >= 2
    /\ created[1].from = ImgB
    /\ created[2].from = ImgF
    /\ created[1].path = OutPathOf(ImgB, 2)
    /\ created[2].path = OutPathOf(ImgB, 3)
    /\ rpc = "rewriting"

\* The files the list of images refers to.
FilesOf(list) == { list[i].file : i \in 1..Len(list) }

\* The run has collected its images again after rewriteNoteLinks wrote the
\* note.
Recollected == rpc = "prepare" /\ pc = "done" /\ writes = 1

\* C22: when the images were collected again after rewriteNoteLinks wrote the
\* rewritten note, the list refers to no HEIC file that was replaced, and
\* refers to the JPEG file that replaced it (one whose name a link
\* destination can hold), whether the cache was refreshed or not between the
\* write and the collection.
C22_RecollectedRefersToJpeg ==
    Recollected =>
        /\ FilesOf(images) \cap DOMAIN replacements = {}
        /\ \A p \in DOMAIN replacements :
              ~HasWhiteSpace(replacements[p]) => replacements[p] \in FilesOf(images)

(***************************************************************************)
(* LonghandSettingTab: the onChange handlers of the settings the run       *)
(* reads.  A number is held in tenths, so that the fractions with one      *)
(* decimal digit are numbers of the model.                                 *)
(***************************************************************************)
DEFAULT_SETTINGS ==
    [openaiApiKey |-> <<>>, convertHeicToJpeg |-> TRUE, replaceHeicEmbedsInNote |-> TRUE,
     imageLimit |-> 10, showStatusBarProgress |-> TRUE, overlayProgressPosition |-> "off"]

IsDigits(t) == t # <<>> /\ \A i \in 1..Len(t) : t[i] \in Digits

DigitValue(c) == CHOOSE d \in 0..9 : DigitChar(d) = c

RECURSIVE DigitsValue(_)
DigitsValue(t) ==
    IF t = <<>> THEN 0
    ELSE 10 * DigitsValue(SubSeq(t, 1, Len(t) - 1)) + DigitValue(t[Len(t)])

NaN == [kind |-> "nan", tenths |-> 0]
Infinite(sign) == [kind |-> "inf", tenths |-> sign]
Finite(tenths) == [kind |-> "num", tenths |-> tenths]

\* Number of an unsigned decimal literal: digits, or digits "." digit.
UnsignedNumber(t) ==
    LET dot == IndexOf(t, <<".">>)
    IN  IF dot = -1
        THEN (IF IsDigits(t) THEN Finite(10 * DigitsValue(t)) ELSE NaN)
        ELSE IF IsDigits(Slice(t, 0, dot)) /\ Len(t) = dot + 2 /\ IsDigits(SliceFrom(t, dot + 1))
        THEN Finite(10 * DigitsValue(Slice(t, 0, dot)) + DigitValue(t[dot + 2]))
        ELSE NaN

InfinityLiteral == <<"I", "n", "f", "i", "n", "i", "t", "y">>

\* Number(v): white space around the literal is dropped, an empty string
\* is 0, a literal with other characters is NaN.
ToNumber(v) ==
    LET t    == Trim(v)
        neg  == t # <<>> /\ Head(t) = "-"
        body == IF t # <<>> /\ Head(t) \in {"-", "+"} THEN Tail(t) ELSE t
        u    == UnsignedNumber(body)
    IN  IF t = <<>> THEN Finite(0)
        ELSE IF body = InfinityLiteral THEN Infinite(IF neg THEN -1 ELSE 1)
        ELSE IF u.kind = "nan" THEN NaN
        ELSE Finite(IF neg THEN 0 - u.tenths ELSE u.tenths)

\* Number.isFinite(n) and n <= 0.
IsFinite(n) == n.kind = "num"
NotAbove0(n) ==
    CASE n.kind = "nan" -> FALSE
      [] n.kind = "inf" -> n.tenths < 0
      [] n.kind = "num" -> n.tenths <= 0

\* Math.floor(n) of a finite number.
Floor(n) == n.tenths \div 10

\* The test of the Image limit handler: the input is rejected.
Rejected(v) == ~IsFinite(ToNumber(v)) \/ NotAbove0(ToNumber(v))

\* settings.imageLimit after the Image limit handler ran on the text v.
ImageLimitAfter(old, v) == IF Rejected(v) THEN old ELSE Floor(ToNumber(v))

\* The texts typed into the Image limit field.
LimitInputs ==
    { <<>>,
      <<" ">>,
      <<"a", "b", "c">>,
      <<"0">>,
      <<"-", "3">>,
      <<"0", ".", "5">>,
      <<"0", ".", "9">>,
      <<"1", ".", "5">>,
      <<"2", ".", "9">>,
      <<"3">>,
      <<"1", "2">>,
      <<" ", "7", " ">>,
      <<"I", "n", "f", "i", "n", "i", "t", "y">>,
      <<"-", "I", "n", "f", "i", "n", "i", "t", "y">>,
      <<"3", "x">> }

\* The texts typed into the OpenAI API Key field.
KeyInputs == { <<>>, <<" ">>, <<" ", "k", " ">> }

SetOpenaiApiKey ==
    /\ rpc = "settings"
    /\ \E v \in KeyInputs : settings' = [settings EXCEPT !.openaiApiKey = Trim(v)]
    /\ UNCHANGED <<rwVars, wkVars, ciVars, rpc, images, modelOutput, runOriginal, heading,
                   inserted, reported, disposed, cvVars, pgVars>>

SetConvertHeicToJpeg ==
    /\ rpc = "settings"
    /\ \E v \in BOOLEAN : settings' = [settings EXCEPT !.convertHeicToJpeg = v]
    /\ UNCHANGED <<rwVars, wkVars, ciVars, rpc, images, modelOutput, runOriginal, heading,
                   inserted, reported, disposed, cvVars, pgVars>>

SetReplaceHeicEmbedsInNote ==
    /\ rpc = "settings"
    /\ \E v \in BOOLEAN : settings' = [settings EXCEPT !.replaceHeicEmbedsInNote = v]
    /\ UNCHANGED <<rwVars, wkVars, ciVars, rpc, images, modelOutput, runOriginal, heading,
                   inserted, reported, disposed, cvVars, pgVars>>

SetShowStatusBarProgress ==
    /\ rpc = "settings"
    /\ \E v \in BOOLEAN : settings' = [settings EXCEPT !.showStatusBarProgress = v]
    /\ UNCHANGED <<rwVars, wkVars, ciVars, rpc, images, modelOutput, runOriginal, heading,
                   inserted, reported, disposed, cvVars, pgVars>>

SetOverlayProgressPosition ==
    /\ rpc = "settings"
    /\ \E v \in {"off", "top", "bottom", "left"} :
          settings' = IF v \in {"off", "top", "bottom"}
                      THEN [settings EXCEPT !.overlayProgressPosition = v]
                      ELSE settings
    /\ UNCHANGED <<rwVars, wkVars, ciVars, rpc, images, modelOutput, runOriginal, heading,
                   inserted, reported, disposed, cvVars, pgVars>>

\* The Image limit handler.
SetImageLimit ==
    /\ rpc = "settings"
    /\ \E v \in LimitInputs :
          settings' = [settings EXCEPT !.imageLimit = ImageLimitAfter(settings.imageLimit, v)]
    /\ UNCHANGED <<rwVars, wkVars, ciVars, rpc, images, modelOutput, runOriginal, heading,
                   inserted, reported, disposed, cvVars, pgVars>>

InitSettings ==
    /\ settings = DEFAULT_SETTINGS
    /\ rpc = "settings"
    /\ images = <<>>
    /\ modelOutput = <<>>
    /\ runOriginal = <<>>
    /\ heading = <<>>
    /\ inserted = 0
    /\ reported = <<>>
    /\ disposed = FALSE
    /\ RewriteIdle
    /\ WikiIdle
    /\ CollectIdle
    /\ ConvertIdle
    /\ ProgressIdle

NextSettings ==
    \/ SetOpenaiApiKey
    \/ SetConvertHeicToJpeg
    \/ SetReplaceHeicEmbedsInNote
    \/ SetShowStatusBarProgress
    \/ SetOverlayProgressPosition
    \/ SetImageLimit

SpecSettings == InitSettings /\ [][NextSettings]_vars

\* C23: after any edits of the Image limit field the stored limit is an
\* integer of at least 1; an input that is not finite or not above 0 leaves
\* it as it is, and every input that is accepted, a fraction between 0 and 1
\* among them, stores a value of at least 1.
C23_LimitIsPositive ==
    /\ settings.imageLimit \in Nat
    /\ settings.imageLimit >= 1
    /\ \A v \in LimitInputs :
          /\ Rejected(v) => ImageLimitAfter(settings.imageLimit, v) = settings.imageLimit
          /\ ~Rejected(v) => ImageLimitAfter(settings.imageLimit, v) >= 1

\* The steps of the run itself: every step of NextRun but the refresh of the
\* parser cache, which is Obsidian's.
RunStep ==
    \/ RunStart
    \/ RunCollectFails
    \/ RunCollected
    \/ RunConvert
    \/ ConvertBegin
    \/ ConvertExists
    \/ ConvertCreate
    \/ RunConverted
    \/ RunConvertFails
    \/ RunRewriteFails
    \/ RunRewritten
    \/ RunRecollected
    \/ RunPrepare
    \/ RunOpenAi
    \/ RunWrite
    \/ CollectBegin
    \/ CollectEmbed
    \/ CollectLink
    \/ RewriteBegin
    \/ RewriteRead
    \/ RewriteCollect
    \/ RewriteSplice
    \/ RewriteWrite

\* The run with every promise it awaits settling, by a value or by an
\* error: a step of the run that can be taken is taken in the end.  Nothing
\* is asked of the refresh of the cache.
SpecRunFair == SpecRun /\ WF_vars(RunStep)

\* What holds of the reports of a run at every moment.
OneOutcome ==
    /\ Len(reported) <= 1
    /\ \A i \in 1..Len(reported) : reported[i] \in {"done", "fail"}
    /\ reported # <<>> => rpc = "finished" /\ disposed
    /\ rpc = "finished" => Len(reported) = 1 /\ disposed
    /\ reported = <<"done">> =>
          /\ inserted = 1
          /\ noteText = NewContent(heading, modelOutput, runOriginal)
    /\ reported = <<"fail">> => inserted = 0

\* C24: every run comes to its end, whatever handled failures it meets; it
\* has then reported one outcome, done or fail, once, and its progress
\* service is disposed; it never reports twice, and reports done only with
\* the transcription written to the note.
C24_ExactlyOneOutcome == []OneOutcome /\ <>(rpc = "finished")

\* C24 witness: a run in which one conversion failed and rewriteNoteLinks
\* failed has written the transcription and reported done.
C24_Witness ==
    /\ rpc = "finished"
    /\ reported = <<"done">>
    /\ disposed
    /\ pc = "failed"
    /\ ri = 2
    /\ Len(created) = 1
    /\ FilesOf(images) = {ImgB}

\* The offset annotation a was inserted at: String.prototype.slice stops at
\* the end of the text.
InsertedAt(a) == Min(a.at, Len(a.text))

\* The characters the insertion of annotation a put in place of the matched
\* text.
Markup(a) ==
    Slice(a.after, InsertedAt(a),
          InsertedAt(a) + Len(a.after) - Len(a.text) + Len(a.matched))

\* m is an annotation [[C]] or [[C|t]], and its visible text.
IsAnnotation(m) ==
    /\ Len(m) >= 4
    /\ OccursAt(m, <<"[", "[">>, 0)
    /\ OccursAt(m, <<"]", "]">>, Len(m) - 2)

Visible(m) ==
    LET inner == Slice(m, 2, Len(m) - 2)
        bar   == IndexOf(inner, <<"|">>)
    IN  IF bar = -1 THEN inner ELSE SliceFrom(inner, bar + 1)

\* The text a was inserted in, from the text after the insertion: the
\* annotation replaced by its visible text.
Unmarked(a) ==
    Slice(a.after, 0, InsertedAt(a)) \o Visible(Markup(a))
       \o SliceFrom(a.after, InsertedAt(a) + Len(Markup(a)))

\* C25: wikilinkEntities only adds link markup.  Each insertion puts an
\* annotation [[C]] or [[C|t]] in the text, and replacing it by its visible
\* text gives the text as it was before the insertion, character for
\* character; the first insertion is made in the input and each next one in
\* the result of the one before, the output being the result of the last.
C25_OnlyAddsMarkup ==
    /\ \A i \in 1..Len(annots) :
          /\ IsAnnotation(Markup(annots[i]))
          /\ Unmarked(annots[i]) = annots[i].text
          /\ annots[i].text = IF i = 1 THEN content ELSE annots[i - 1].after
    /\ wpc \in {"key", "scan", "done"} =>
          text = IF annots = <<>> THEN content ELSE annots[Len(annots)].after

\* C25 witness: a call has returned a text with two annotations, one of them
\* showing a text that differs from the canonical name.
C25_Witness ==
    /\ wpc = "done"
    /\ Len(annots) >= 2
    /\ \E i \in 1..Len(annots) : annots[i].matched # annots[i].canonical
    /\ \E i \in 1..Len(annots) : annots[i].matched = annots[i].canonical
    /\ text # content

(***************************************************************************)
(* ProgressService: its methods called in any order, up to                 *)
(* MaxProgressCalls calls, on a service built with any options.            *)
(***************************************************************************)
MaxProgressCalls == 3   \* method calls made on the service

\* What the methods of ProgressService leave alone.
offProgress == <<rwVars, wkVars, ciVars, runVars, cvVars, opts>>

\* The messages handed to the methods.
ProgressMessages == { <<"m">>, <<"n">> }

\* current and total of a log entry made without them.
Undefined == -1

ProgressOptions ==
    [statusBar : BOOLEAN, startFinishNotices : BOOLEAN, floatingToast : BOOLEAN,
     overlayPosition : {"off", "top", "bottom"}]

\* internalUpdate(msg, meta): the effects on last, log, the status bar, the
\* toasts and the overlay.
InternalUpdate(msg, kind, current, total) ==
    /\ last' = msg
    /\ log' = Append(log, [message |-> msg, kind |-> kind, current |-> current,
                           total |-> total])
    /\ statusText' = IF opts.statusBar THEN msg ELSE statusText
    /\ toasts' = IF opts.floatingToast THEN Append(toasts, [message |-> msg, kind |-> kind])
                 ELSE toasts
    /\ overlayText' = IF opts.overlayPosition # "off" THEN msg ELSE overlayText

\* dispose(), as the last statement of a method or called by itself.
Dispose ==
    IF pDisposed
    THEN UNCHANGED <<removed, pDisposed>>
    ELSE /\ removed' = IF opts.statusBar THEN removed + 1 ELSE removed
         /\ pDisposed' = TRUE

\* A method is called on a constructed service.
Called(name) ==
    /\ opts # <<>>
    /\ Len(pcalls) < MaxProgressCalls
    /\ pcalls' = Append(pcalls, name)

ProgressStart ==
    /\ Called("start")
    /\ \E msg \in ProgressMessages :
          /\ notices' = IF opts.startFinishNotices THEN Append(notices, msg) ELSE notices
          /\ InternalUpdate(msg, "info", Undefined, Undefined)
    /\ UNCHANGED <<removed, pDisposed, offProgress>>

ProgressSet ==
    /\ Called("set")
    /\ \E msg \in ProgressMessages :
          IF pDisposed \/ msg = last
          THEN UNCHANGED <<last, log, statusText, toasts, overlayText>>
          ELSE InternalUpdate(msg, "info", Undefined, Undefined)
    /\ UNCHANGED <<notices, removed, pDisposed, offProgress>>

ProgressSetProgress ==
    /\ Called("setProgress")
    /\ \E msg \in ProgressMessages, total \in 1..2, current \in 0..1 :
          IF pDisposed
          THEN UNCHANGED <<last, log, statusText, toasts, overlayText>>
          ELSE InternalUpdate(msg, "info", current, total)
    /\ UNCHANGED <<notices, removed, pDisposed, offProgress>>

ProgressDone ==
    /\ Called("done")
    /\ \E msg \in ProgressMessages :
          /\ notices' = IF opts.startFinishNotices THEN Append(notices, msg) ELSE notices
          /\ InternalUpdate(msg, "done", Undefined, Undefined)
    /\ Dispose
    /\ UNCHANGED offProgress

ProgressFail ==
    /\ Called("fail")
    /\ \E msg \in ProgressMessages :
          /\ notices' = Append(notices, msg)
          /\ InternalUpdate(msg, "error", Undefined, Undefined)
    /\ Dispose
    /\ UNCHANGED offProgress

ProgressDispose ==
    /\ Called("dispose")
    /\ Dispose
    /\ UNCHANGED <<last, log, statusText, toasts, overlayText, notices, offProgress>>

\* new ProgressService(app, plugin, opts)
InitProgress ==
    /\ opts \in ProgressOptions
    /\ pDisposed = FALSE
    /\ last = <<>>
    /\ log = <<>>
    /\ statusText = <<>>
    /\ removed = 0
    /\ toasts = <<>>
    /\ overlayText = <<>>
    /\ notices = <<>>
    /\ pcalls = <<>>
    /\ RewriteIdle
    /\ WikiIdle
    /\ CollectIdle
    /\ RunIdle
    /\ ConvertIdle

NextProgress ==
    \/ ProgressStart
    \/ ProgressSet
    \/ ProgressSetProgress
    \/ ProgressDone
    \/ ProgressFail
    \/ ProgressDispose

SpecProgress == InitProgress /\ [][NextProgress]_vars

\* C26: no call made on a disposed ProgressService changes the message it
\* holds or shows in the status bar, appends a log entry, shows a toast or
\* updates the overlay, and the status element is not removed again.
C26_SilentAfterDispose ==
    [][pDisposed => UNCHANGED <<last, log, statusText, toasts, overlayText, removed>>]_vars

====
